---------------------------- MODULE Spec2Model ----------------------------
(***************************************************************************)
(* A model of the validation and diagnostics core of yml2block:            *)
(*   - the lint rules of rules.py (keywords_valid, unique_names,           *)
(*     unique_titles),                                                     *)
(*   - the TSV section splitter of tsv_input.py (_identify_break_points),  *)
(*   - the prefix clusterer and the typo heuristic of prefix_analysis.py.  *)
(*                                                                         *)
(* Python strings that the code inspects character by character (TSV       *)
(* lines, field-name keywords) are sequences of one-character strings;     *)
(* strings the code only compares as a whole (top-level keywords, field    *)
(* values, rule names) are TLA+ strings.  Python lists and tuples are      *)
(* sequences, Python sets are sets, an insertion-ordered dict is a         *)
(* sequence of [key, entries] records.                                     *)
(***************************************************************************)
EXTENDS Integers, Sequences, FiniteSets, TLC

VARIABLES
    \* ---- rules.py: one call of a lint rule
    rules_pc,        \* "idle" | "ready" | "done"
    rule,            \* the rule that is called
    keywords_arg,    \* keywords_valid: the list of top-level keywords
    yaml_chunk,      \* unique_names / unique_titles: the record list
    tsv_keyword,     \* unique_names / unique_titles: the section keyword
    level,           \* the level argument of the rule
    rule_result,     \* what the call gave: a returned list or a raised exception
    \* ---- tsv_input.py: one call of _identify_break_points
    split_pc,        \* "idle" | "ready" | "done"
    full_file,       \* the lines of the file
    split_blocks,    \* first component of the returned pair
    bp_violations,   \* second component of the returned pair
    \* ---- prefix_analysis.py: calls of split_by_common_prefixes / estimate_typos
    prefix_pc,       \* "idle" | "ready" | "while" | "for" | "done"
    entry,           \* the function the caller called
    caller_keywords, \* the content of the caller's list object
    keywords,        \* the content of the list the local name keywords is bound to
    aliased,         \* whether that list is still the caller's list object
    min_prefix_length,
    dl_distance_threshold,
    selected_keyword,
    current_group,
    current_prefix,
    kw_idx,          \* position of the for loop in keywords (1-based)
    identified_groups,
    typo_candidates,
    call_arg,        \* the content of the caller's list when the call was made
    previous_call,   \* the earlier call on the same list object, if any
    \* ---- rules.py (LintConfig), the readers and validation.py: a schema is
    \* read and validated under a configuration
    lint_pc,         \* "idle" | "ready" | "configured" | "overridden" | "aborted" | "read" | "done" | "validated"
    file_content,          \* the content of the file
    file_type,      \* "yaml" | "tsv"
    cli_args,        \* the error, warn and skip identifier lists
    lint_conf,       \* what from_cli_args gave: the overrides, or an exception
    document,            \* the Document the reader built
    validation,      \* what validate_yaml gave
    \* ---- __main__.py: a run of the check or the convert command, or a call
    \* of one of the functions of the module
    run_pc,          \* "idle" | "start" | "returned" | "exited" | "aborted"
    command,         \* "check" | "convert", or the function that is called
    run_args,        \* warn, skip, warn_ec, the files the paths name; the arguments of a call
    run_conf,        \* lint_conf
    file_idx,        \* the number of files the loop has taken
    lint_violations, \* the ViolationsByFile: file path -> violations, in insertion order
    files_read,      \* the paths a reader has opened
    files_validated, \* the paths whose Document validate_yaml has returned for
    output_written,  \* whether write_metadata_block has opened the output file
    printed,         \* the heading return_violations has printed for each file
    returned,        \* what the function that was called returned
    out_file,        \* the lines write_metadata_block has written to the output file
    exit_code        \* the exit status of the process, None while it runs

rules_vars == <<rules_pc, rule, keywords_arg, yaml_chunk, tsv_keyword, level, rule_result>>
split_vars == <<split_pc, full_file, split_blocks, bp_violations>>
prefix_vars ==
    <<prefix_pc, entry, caller_keywords, keywords, aliased, min_prefix_length,
      dl_distance_threshold, selected_keyword, current_group, current_prefix,
      kw_idx, identified_groups, typo_candidates, call_arg, previous_call>>
lint_vars == <<lint_pc, file_content, file_type, cli_args, lint_conf, document, validation>>
run_vars == <<run_pc, command, run_args, run_conf, file_idx, lint_violations, files_read,
              files_validated, output_written, printed, returned, out_file, exit_code>>
engine_vars == <<lint_vars, run_vars>>
vars == <<rules_vars, split_vars, prefix_vars, engine_vars>>

-----------------------------------------------------------------------------
(* Bounds of the model *)

\* longest list of top-level keywords
MaxKeywords == 3
\* longest record list of a section
MaxRecords == 3
\* longest file, in lines
MaxLines == 5
\* longest keyword list drawn from ShortKeywords
MaxPrefixKeywords == 3
\* largest dl_distance_threshold
MaxThreshold == 2
\* longest datasetField section of a schema
MaxFieldRecords == 1
\* longest identifier list on the command line
MaxIdentifiers == 1
\* most files of a run
MaxFiles == 2

-----------------------------------------------------------------------------
(* Python values *)

\* None as a line or column number (line and column numbers are >= 0)
None == -1
\* None as a field value (YAML null); field values are strings otherwise
NoneValue == "<None>"

Range(s) == {s[i] : i \in 1..Len(s)}

\* all sequences over S of length 0..n
SeqsUpTo(S, n) == UNION {[1..k -> S] : k \in 0..n}

\* s[a:b] of Python for 0 <= a <= b <= len(s)
Slice(s, a, b) == SubSeq(s, a + 1, b)

\* the distinct elements of s in the order of their first occurrence: the key
\* order of a Counter / dict filled by iterating over s
RECURSIVE FirstOccurrences(_)
FirstOccurrences(s) ==
    IF s = <<>> THEN <<>>
    ELSE LET front == FirstOccurrences(SubSeq(s, 1, Len(s) - 1))
             last == s[Len(s)]
         IN IF last \in Range(front) THEN front ELSE Append(front, last)

\* number of positions of s holding x
Count(s, x) == Cardinality({i \in 1..Len(s) : s[i] = x})

\* the outcome of a call: a returned value or a raised exception
Returned(v) == [raised |-> FALSE, value |-> v]
Raised(exc, arg) == [raised |-> TRUE, exc |-> exc, arg |-> arg]

-----------------------------------------------------------------------------
(* rules.py *)

PERMISSIBLE_KEYWORDS == <<"metadataBlock", "datasetField", "controlledVocabulary">>
REQUIRED_TOP_LEVEL_KEYWORDS == <<"metadataBlock", "datasetField">>

\* class Level(IntEnum)
NONE == 3
WARNING == 2
ERROR == 1
Levels == {ERROR, WARNING}

LintViolation(lvl, rule_name, message, line, column) ==
    [level |-> lvl, rule |-> rule_name, message |-> message,
     line |-> line, column |-> column]

\* The message of keywords_valid.  Its content is the set of keywords that are
\* not permissible and the set of required keywords that are missing; the
\* wording and the "did you mean" hint per keyword are not modelled.
fix_keywords_valid(kws, permissible_keywords, required_keywords) ==
    [additional_keywords |-> Range(kws) \ Range(permissible_keywords),
     missing_keywords |-> Range(required_keywords) \ Range(kws)]

keywords_valid_accepts_subsets(kws, lvl) ==
    LET unique_keys == Range(kws) IN
    IF unique_keys = Range(PERMISSIBLE_KEYWORDS) THEN <<>>
    ELSE IF Range(REQUIRED_TOP_LEVEL_KEYWORDS) \subseteq unique_keys THEN <<>>
    ELSE << LintViolation(lvl, "keywords_valid",
                fix_keywords_valid(kws, PERMISSIBLE_KEYWORDS,
                                   REQUIRED_TOP_LEVEL_KEYWORDS),
                None, None) >>

keywords_valid(kws, lvl) ==
    LET unique_keys == Range(kws) IN
    IF unique_keys = Range(PERMISSIBLE_KEYWORDS) THEN <<>>
    ELSE IF unique_keys = Range(REQUIRED_TOP_LEVEL_KEYWORDS) THEN <<>>
    ELSE << LintViolation(lvl, "keywords_valid",
                fix_keywords_valid(kws, PERMISSIBLE_KEYWORDS,
                                   REQUIRED_TOP_LEVEL_KEYWORDS),
                None, None) >>

\* A record (MDBlockDict) is [line, column, fields]; fields maps the keys that
\* are present to MDBlockNode values [value, line, column].
HasKey(item, key) == key \in DOMAIN item.fields

\* index of the first record of the chunk lacking one of the keys (the keys are
\* looked up in the given order in each record), 0 if there is none
FirstMissing(chunk, keys) ==
    LET bad == {i \in 1..Len(chunk) : \E k \in Range(keys) : ~HasKey(chunk[i], k)}
    IN IF bad = {} THEN 0 ELSE CHOOSE i \in bad : \A j \in bad : i <= j

FirstMissingKey(item, keys) ==
    keys[CHOOSE n \in 1..Len(keys) :
            /\ ~HasKey(item, keys[n])
            /\ \A m \in 1..(n - 1) : HasKey(item, keys[m])]

\* [o.line for o in occurrences[k]], occurrences being filled in record order
\* under the key item_keys[i] of record i
OccurrenceLines(chunk, item_keys, k) ==
    LET F[n \in 0..Len(chunk)] ==
            IF n = 0 THEN <<>>
            ELSE IF item_keys[n] = k THEN Append(F[n - 1], chunk[n].line)
            ELSE F[n - 1]
    IN F[Len(chunk)]

NameOf(item) == item.fields["name"].value

unique_names(chunk, kw, lvl) ==
    IF kw \notin {"metadataBlock", "datasetField"} THEN Returned(<<>>)
    ELSE
    LET miss == FirstMissing(chunk, <<"name">>) IN
    IF miss # 0 THEN Raised("KeyError", "name")
    ELSE
    LET item_names == [i \in 1..Len(chunk) |-> NameOf(chunk[i])]
        names == FirstOccurrences(item_names)
        Error(name) ==
            IF Count(item_names, name) > 1
            THEN << LintViolation(lvl, "unique_names",
                        [name |-> name, count |-> Count(item_names, name),
                         occs |-> OccurrenceLines(chunk, item_names, name)],
                        None, None) >>
            ELSE <<>>
        errors[n \in 0..Len(names)] ==
            IF n = 0 THEN <<>> ELSE errors[n - 1] \o Error(names[n])
    IN Returned(errors[Len(names)])

TitleParentOf(item) == <<item.fields["title"].value, item.fields["parent"].value>>

unique_titles(chunk, kw, lvl) ==
    IF kw \notin {"datasetField"} THEN Returned(<<>>)
    ELSE
    LET miss == FirstMissing(chunk, <<"title", "parent">>) IN
    IF miss # 0
    THEN Raised("KeyError", FirstMissingKey(chunk[miss], <<"title", "parent">>))
    ELSE
    LET item_keys == [i \in 1..Len(chunk) |-> TitleParentOf(chunk[i])]
        titles == FirstOccurrences(item_keys)
        \* occurrences is filled under the title alone and read under the
        \* (title, parent) pair, which is never one of its keys: the
        \* defaultdict gives an empty list
        Error(title) ==
            IF Count(item_keys, title) > 1
            THEN << LintViolation(lvl, "unique_titles",
                        [title |-> title, count |-> Count(item_keys, title),
                         occs |-> <<>>],
                        None, None) >>
            ELSE <<>>
        errors[n \in 0..Len(titles)] ==
            IF n = 0 THEN <<>> ELSE errors[n - 1] \o Error(titles[n])
    IN Returned(errors[Len(titles)])

-----------------------------------------------------------------------------
(* tsv_input.py *)

\* line.startswith("#")
StartsWithHash(line) == Len(line) >= 1 /\ line[1] = "#"

\* [i for i, line in enumerate(full_file) if line.startswith("#")], 0-based,
\* ascending
BreakPoints(file) ==
    LET F[n \in 0..Len(file)] ==
            IF n = 0 THEN <<>>
            ELSE IF StartsWithHash(file[n]) THEN Append(F[n - 1], n - 1)
            ELSE F[n - 1]
    IN F[Len(file)]

\* An element of the 3-tuple split_blocks: a list of lines, or None
PyList(lines) == [type |-> "list", items |-> lines]
PyNone == [type |-> "NoneType"]

identify_break_points_from_start(file) ==
    LET break_points == BreakPoints(file) bp(k) == break_points[k + 1] IN
    IF Len(break_points) = 3
    THEN << << PyList(Slice(file, 0, bp(1))),
               PyList(Slice(file, bp(1), bp(2))),
               PyList(Slice(file, bp(2), Len(file))) >>,
            <<>> >>
    ELSE IF Len(break_points) = 2
    THEN << << PyList(Slice(file, 0, bp(1))),
               PyList(Slice(file, bp(1), Len(file))),
               PyNone >>,
            <<>> >>
    ELSE << file,
            << LintViolation(WARNING, "identify_break_points",
                   "Unable to split TSV file into blocks. Check tsv file formatting.",
                   None, None) >> >>

identify_break_points_two_or_more(file) ==
    LET break_points == BreakPoints(file) bp(k) == break_points[k + 1] IN
    IF Len(break_points) = 3
    THEN << << PyList(Slice(file, bp(0), bp(1))),
               PyList(Slice(file, bp(1), bp(2))),
               PyList(Slice(file, bp(2), Len(file))) >>,
            <<>> >>
    ELSE IF Len(break_points) >= 2
    THEN << << PyList(Slice(file, bp(0), bp(1))),
               PyList(Slice(file, bp(1), Len(file))),
               PyNone >>,
            <<>> >>
    ELSE << file,
            << LintViolation(WARNING, "identify_break_points",
                   "Unable to split TSV file into blocks. Check tsv file formatting.",
                   None, None) >> >>

\* _identify_break_points: the pair (split_blocks, violations)
identify_break_points(file) ==
    LET break_points == BreakPoints(file) bp(k) == break_points[k + 1] IN
    IF Len(break_points) = 3
    THEN << << PyList(Slice(file, bp(0), bp(1))),
               PyList(Slice(file, bp(1), bp(2))),
               PyList(Slice(file, bp(2), Len(file))) >>,
            <<>> >>
    ELSE IF Len(break_points) = 2
    THEN << << PyList(Slice(file, bp(0), bp(1))),
               PyList(Slice(file, bp(1), Len(file))),
               PyNone >>,
            <<>> >>
    ELSE << file,
            << LintViolation(WARNING, "identify_break_points",
                   "Unable to split TSV file into blocks. Check tsv file formatting.",
                   None, None) >> >>

-----------------------------------------------------------------------------
(* prefix_analysis.py *)

Min(a, b) == IF a <= b THEN a ELSE b

\* os.path.commonprefix((a, b))
CommonPrefix(a, b) ==
    LET agree == {n \in 0..Min(Len(a), Len(b)) : \A i \in 1..n : a[i] = b[i]}
    IN SubSeq(a, 1, CHOOSE n \in agree : \A m \in agree : m <= n)

\* s.startswith(p)
StartsWith(s, p) == Len(p) <= Len(s) /\ SubSeq(s, 1, Len(p)) = p

\* current_prefix: None, or a string
NonePrefix == [is_none |-> TRUE]
SomePrefix(p) == [is_none |-> FALSE, prefix |-> p]

\* the three branches taken on a candidate's common prefix with the reference
\* keyword, in the order of the if statement
first_prefix_below_minimum(common_prefix, prefix, min) ==
    prefix = NonePrefix /\ Len(common_prefix) >= min - 1

FirstPrefixFound(common_prefix, prefix, min) ==
    prefix = NonePrefix /\ Len(common_prefix) >= min

\* the second branch taken also by a candidate that shares less than the
\* working prefix
exact_match_or_shorter(common_prefix, prefix, min) ==
    /\ ~FirstPrefixFound(common_prefix, prefix, min)
    /\ prefix # NonePrefix /\ StartsWith(prefix.prefix, common_prefix)

ExactMatch(common_prefix, prefix, min) ==
    /\ ~FirstPrefixFound(common_prefix, prefix, min)
    /\ prefix # NonePrefix /\ common_prefix = prefix.prefix

LongerPrefix(common_prefix, prefix, min) ==
    /\ ~FirstPrefixFound(common_prefix, prefix, min)
    /\ ~ExactMatch(common_prefix, prefix, min)
    /\ prefix # NonePrefix /\ StartsWith(common_prefix, prefix.prefix)

\* the group left unfiltered when the prefix is lengthened
starting_with_keeps_all(s, p) == s

\* [k for k in current_group if k.startswith(current_prefix)]
RECURSIVE StartingWith(_, _)
StartingWith(s, p) ==
    IF s = <<>> THEN <<>>
    ELSE IF StartsWith(Head(s), p) THEN <<Head(s)>> \o StartingWith(Tail(s), p)
    ELSE StartingWith(Tail(s), p)

not_in_keeps_all(s, group) == s

\* [kw for kw in keywords if kw not in current_group]
RECURSIVE NotIn(_, _)
NotIn(s, group) ==
    IF s = <<>> THEN <<>>
    ELSE IF Head(s) \in Range(group) THEN NotIn(Tail(s), group)
    ELSE <<Head(s)>> \o NotIn(Tail(s), group)

\* An insertion-ordered dict: a sequence of [key, entries] with distinct keys
DictKeys(d) == [i \in 1..Len(d) |-> d[i].key]
DictHas(d, k) == \E i \in 1..Len(d) : d[i].key = k
DictGet(d, k) == d[CHOOSE i \in 1..Len(d) : d[i].key = k].entries
\* d[k] = v: the value of an existing key is replaced in place, a new key
\* goes to the end
DictSet(d, k, v) ==
    IF DictHas(d, k)
    THEN [i \in 1..Len(d) |-> IF d[i].key = k THEN [key |-> k, entries |-> v] ELSE d[i]]
    ELSE Append(d, [key |-> k, entries |-> v])

Min3(a, b, c) == Min(a, Min(b, c))

\* jellyfish.damerau_levenshtein_distance(s1, s2): the unrestricted
\* Damerau-Levenshtein distance (insertion, deletion, substitution and
\* transposition of two adjacent characters, each of cost 1).  The table is
\* filled row by row; cell (i, j), 0 <= i <= len(s1), 0 <= j <= len(s2), is
\* the distance between the first i characters of s1 and the first j of s2.
\* DLRow gives cells 0..j of row i from the rows 0..i-1 above it.
RECURSIVE DLRow(_, _, _, _, _)
DLRow(s1, s2, above, i, j) ==
    IF j = 0 THEN <<i>>
    ELSE
    LET left == DLRow(s1, s2, above, i, j - 1)
        At(a, b) == IF a = i THEN left[b + 1] ELSE above[a + 1][b + 1]
        \* da[s2[j]]: the last row before i whose character is s2[j]
        rows == {a \in 1..(i - 1) : s1[a] = s2[j]}
        i1 == IF rows = {} THEN 0 ELSE CHOOSE a \in rows : \A b \in rows : b <= a
        \* db: the last column before j whose character is s1[i]
        cols == {b \in 1..(j - 1) : s2[b] = s1[i]}
        j1 == IF cols = {} THEN 0 ELSE CHOOSE b \in cols : \A a \in cols : a <= b
        cost == IF s1[i] = s2[j] THEN 0 ELSE 1
        edit == Min3(At(i - 1, j - 1) + cost, At(i, j - 1) + 1, At(i - 1, j) + 1)
        transposed == At(i1 - 1, j1 - 1) + (i - i1 - 1) + 1 + (j - j1 - 1)
        cell == IF i = 0 THEN j
                ELSE IF i1 > 0 /\ j1 > 0 THEN Min(edit, transposed)
                ELSE edit
    IN Append(left, cell)

\* rows 0..i of the table
RECURSIVE DLRows(_, _, _)
DLRows(s1, s2, i) ==
    IF i = 0 THEN << DLRow(s1, s2, <<>>, 0, Len(s2)) >>
    ELSE LET above == DLRows(s1, s2, i - 1)
         IN Append(above, DLRow(s1, s2, above, i, Len(s2)))

dl_dist(s1, s2) == DLRows(s1, s2, Len(s1))[Len(s1) + 1][Len(s2) + 1]

\* the (singleton group, candidate group) pair appended to typo_candidates
TypoCandidate(keyword_prefixes, singleton_prefix, prefix) ==
    << [key |-> singleton_prefix, entries |-> DictGet(keyword_prefixes, singleton_prefix)],
       [key |-> prefix, entries |-> DictGet(keyword_prefixes, prefix)] >>

\* every prefix of keyword_prefixes taken for a singleton
singletons_every_prefix(keyword_prefixes) ==
    [n \in 1..Len(keyword_prefixes) |-> keyword_prefixes[n].key]

\* the singletons of keyword_prefixes, in dict order
Singletons(keyword_prefixes) ==
    LET F[n \in 0..Len(keyword_prefixes)] ==
            IF n = 0 THEN <<>>
            ELSE IF Len(keyword_prefixes[n].entries) = 1
                 THEN Append(F[n - 1], keyword_prefixes[n].key)
                 ELSE F[n - 1]
    IN F[Len(keyword_prefixes)]

\* the body of the inner loop of _singleton_heuristic: what one (singleton,
\* prefix) pair adds to typo_candidates
singleton_heuristic_pair_any_length(keyword_prefixes, singleton_prefix, prefix, threshold) ==
    IF prefix = singleton_prefix THEN <<>>
    ELSE IF dl_dist(SubSeq(singleton_prefix, 1, Min(Len(prefix), Len(singleton_prefix))),
                    prefix) <= threshold
    THEN << TypoCandidate(keyword_prefixes, singleton_prefix, prefix) >>
    ELSE <<>>

singleton_heuristic_pair(keyword_prefixes, singleton_prefix, prefix, threshold) ==
    IF prefix = singleton_prefix THEN <<>>
    ELSE IF Len(singleton_prefix) < Len(prefix) THEN <<>>
    ELSE IF dl_dist(SubSeq(singleton_prefix, 1, Len(prefix)), prefix) <= threshold
    THEN << TypoCandidate(keyword_prefixes, singleton_prefix, prefix) >>
    ELSE <<>>

\* _singleton_heuristic
singleton_heuristic(keyword_prefixes, threshold) ==
    LET singletons == Singletons(keyword_prefixes)
        n == Len(keyword_prefixes)
        \* the candidates after c steps of the two nested loops
        F[c \in 0..(Len(singletons) * n)] ==
            IF c = 0 THEN <<>>
            ELSE F[c - 1] \o
                 singleton_heuristic_pair(
                     keyword_prefixes,
                     singletons[((c - 1) \div n) + 1],
                     keyword_prefixes[((c - 1) % n) + 1].key,
                     threshold)
    IN F[Len(singletons) * n]

-----------------------------------------------------------------------------
(* rules.py, continued: the other rules of the catalog and LintConfig *)

\* A record (MDBlockDict) that comes from a reader also carries order, the
\* keys of its fields in insertion order.  A section value is a list
\* [type |-> "MDBlockList", items, line, column], a mapping
\* [type |-> "MDBlockDict", keys, line, column] or a scalar
\* [type |-> "MDBlockNode", value, line, column].  Iterating over a mapping
\* gives its keys, which are str objects, [type |-> "str"].
TrueValue == "<True>"
FalseValue == "<False>"
\* a field of a YAML record whose value is a mapping ({x: y}) or a list ([x])
\* instead of a scalar
MappingValue == "<mapping>"
ListValue == "<list>"

REQUIRED_KEYS ==
    [metadataBlock |-> <<"name", "displayName">>,
     datasetField |-> <<"name", "title", "description", "fieldType", "displayOrder",
                        "advancedSearchField", "allowControlledVocabulary",
                        "allowmultiples", "facetable", "displayoncreate", "required",
                        "metadatablock_id">>,
     controlledVocabulary |-> <<"DatasetField", "Value">>]

PERMISSIBLE_KEYS ==
    [metadataBlock |-> <<"name", "dataverseAlias", "displayName", "blockURI">>,
     datasetField |-> <<"name", "title", "description", "watermark", "fieldType",
                        "displayOrder", "displayFormat", "advancedSearchField",
                        "allowControlledVocabulary", "allowmultiples", "facetable",
                        "displayoncreate", "required", "parent", "metadatablock_id",
                        "termURI">>,
     controlledVocabulary |-> <<"DatasetField", "Value", "identifier", "displayOrder">>]

\* the outcomes of a sequence of calls made one after the other: the first
\* exception, or the concatenation of the returned lists
RECURSIVE AllOf(_)
AllOf(outcomes) ==
    IF outcomes = <<>> THEN Returned(<<>>)
    ELSE LET first == outcomes[1] rest == AllOf(Tail(outcomes))
         IN IF first.raised THEN first
            ELSE IF rest.raised THEN rest
            ELSE Returned(first.value \o rest.value)

IsStr(item) == "fields" \notin DOMAIN item

\* suggestions.identify_entry: the node naming the record, with its line and
\* column (an f-string formats it as "(line, column) value"); the fallback
\* list_item[:10] of a record without that field looks the slice up as a key
identify_entry(list_item, kw) ==
    LET key == IF kw = "controlledVocabulary" THEN "DatasetField" ELSE "name"
    IN IF HasKey(list_item, key) THEN Returned(list_item.fields[key])
       ELSE Raised("KeyError", "slice(None, 10, None)")

block_is_list(chunk, lvl) ==
    IF chunk.type \in {"list", "MDBlockList"} THEN Returned(<<>>)
    ELSE Returned(<< LintViolation(lvl, "block_is_list", "Entry is not a list",
                                   chunk.line, chunk.column) >>)

keywords_unique(kws, lvl) ==
    IF Cardinality(Range(kws)) = Len(kws) THEN <<>>
    ELSE << LintViolation(lvl, "keywords_unique", [keywords |-> kws], None, None) >>

keys_valid(list_item, kw, lvl) ==
    IF kw \notin DOMAIN PERMISSIBLE_KEYS
    THEN IF IsStr(list_item) THEN Raised("AttributeError", "line")
         ELSE Returned(<< LintViolation(lvl, "keys_valid", [invalid_keyword |-> kw],
                                        list_item.line, list_item.column) >>)
    ELSE IF IsStr(list_item) THEN Raised("AttributeError", "items")
    ELSE
    LET permissible == Range(PERMISSIBLE_KEYS[kw])
        name == identify_entry(list_item, kw)
        One(key) ==
            IF key \in permissible THEN Returned(<<>>)
            ELSE IF name.raised THEN name
            ELSE Returned(<< LintViolation(lvl, "keys_valid",
                                [key |-> key, name |-> name.value, block |-> kw],
                                list_item.fields[key].line,
                                list_item.fields[key].column) >>)
    IN AllOf([i \in 1..Len(list_item.order) |-> One(list_item.order[i])])

required_keys_present(list_item, kw, lvl) ==
    IF IsStr(list_item) THEN Raised("AttributeError", "keys")
    ELSE IF kw \notin DOMAIN REQUIRED_KEYS
    THEN Returned(<< LintViolation(lvl, "required_keys_present",
                                   [invalid_keyword |-> kw],
                                   list_item.line, list_item.column) >>)
    ELSE
    LET missing_keys == Range(REQUIRED_KEYS[kw]) \ DOMAIN list_item.fields
        name == identify_entry(list_item, kw)
    IN IF missing_keys = {} THEN Returned(<<>>)
       ELSE IF name.raised THEN name
       ELSE Returned(<< LintViolation(lvl, "required_keys_present",
                            [missing_keys |-> missing_keys, name |-> name.value,
                             block |-> kw],
                            list_item.line, list_item.column) >>)

\* the type of a field value: the readers wrap every value
NodeType(node) == IF "type" \in DOMAIN node THEN node.type ELSE "MDBlockNode"

\* a plain dict, tuple or list has no attribute 'line'
no_substructures(list_item, kw, lvl) ==
    IF IsStr(list_item) THEN Raised("AttributeError", "items")
    ELSE IF \E key \in DOMAIN list_item.fields :
                NodeType(list_item.fields[key]) \in {"dict", "tuple", "list"}
    THEN Raised("AttributeError", "line")
    ELSE Returned(<<>>)

\* the field values of the model that end in a space
ValuesWithTrailingSpaces == {"a ", "t "}
\* value and re.search(" +$", value), value being str(list_item[entry].value)
HasTrailingSpaces(value) == value \in ValuesWithTrailingSpaces

EntriesToCheck ==
    [metadataBlock |-> <<"name", "dataverseAlias">>,
     datasetField |-> <<"name", "title", "description", "watermark", "fieldType",
                        "parent", "metadatablock_id">>,
     controlledVocabulary |-> <<"Value", "identifier">>]

no_trailing_spaces(list_item, kw, lvl) ==
    IF kw \notin DOMAIN EntriesToCheck THEN Returned(<<>>)
    ELSE IF IsStr(list_item) THEN Raised("TypeError", "string indices must be integers")
    ELSE
    LET to_check == EntriesToCheck[kw]
        One(e) ==
            IF ~HasKey(list_item, e) THEN <<>>
            ELSE IF HasTrailingSpaces(list_item.fields[e].value)
            THEN << LintViolation(lvl, "no_trailing_spaces",
                        [value |-> list_item.fields[e].value],
                        list_item.fields[e].line, list_item.fields[e].column) >>
            ELSE <<>>
        F[n \in 0..Len(to_check)] ==
            IF n = 0 THEN <<>> ELSE F[n - 1] \o One(to_check[n])
    IN Returned(F[Len(to_check)])

\* the common body of nested_compound_metadata and
\* nested_compound_metadata_controlled_vocab; controlled is the value
\* allowControlledVocabulary is compared with.  The three conditions are
\* evaluated left to right and a field is looked up only when its condition is
\* reached.
nested_compound(list_item, kw, lvl, rule_name, controlled) ==
    IF kw # "datasetField" THEN Returned(<<>>)
    ELSE IF IsStr(list_item) THEN Raised("TypeError", "string indices must be integers")
    ELSE IF ~HasKey(list_item, "parent") THEN Raised("KeyError", "parent")
    ELSE IF list_item.fields["parent"].value = NoneValue THEN Returned(<<>>)
    ELSE IF ~HasKey(list_item, "allowmultiples") THEN Raised("KeyError", "allowmultiples")
    ELSE IF list_item.fields["allowmultiples"].value # TrueValue THEN Returned(<<>>)
    ELSE IF ~HasKey(list_item, "allowControlledVocabulary")
    THEN Raised("KeyError", "allowControlledVocabulary")
    ELSE IF list_item.fields["allowControlledVocabulary"].value # controlled
    THEN Returned(<<>>)
    ELSE IF ~HasKey(list_item, "name") THEN Raised("KeyError", "name")
    ELSE Returned(<< LintViolation(lvl, rule_name, [name |-> list_item.fields["name"]],
                        list_item.fields["allowmultiples"].line,
                        list_item.fields["allowmultiples"].column) >>)

nested_compound_metadata(list_item, kw, lvl) ==
    nested_compound(list_item, kw, lvl, "nested_compound_metadata", FalseValue)

nested_compound_metadata_controlled_vocab(list_item, kw, lvl) ==
    nested_compound(list_item, kw, lvl, "nested_compound_metadata_controlled_vocab",
                    TrueValue)

\* LINT_NAMES: the rule each full name and each short code stands for
LINT_NAMES ==
    [unique_names |-> "unique_names", b001 |-> "unique_names",
     block_is_list |-> "block_is_list", b002 |-> "block_is_list",
     unique_titles |-> "unique_titles", b003 |-> "unique_titles",
     keywords_valid |-> "keywords_valid", k001 |-> "keywords_valid",
     keywords_unique |-> "keywords_unique", k002 |-> "keywords_unique",
     keys_valid |-> "keys_valid", e001 |-> "keys_valid",
     required_keys_present |-> "required_keys_present", e002 |-> "required_keys_present",
     no_substructures |-> "no_substructures", e003 |-> "no_substructures",
     no_trailing_spaces |-> "no_trailing_spaces", e004 |-> "no_trailing_spaces",
     nested_compound_metadata |-> "nested_compound_metadata",
     e005 |-> "nested_compound_metadata",
     nested_compound_metadata_controlled_vocab |->
         "nested_compound_metadata_controlled_vocab",
     e006 |-> "nested_compound_metadata_controlled_vocab"]

\* the default of the level parameter of a rule
DefaultLevel(lint) ==
    IF lint \in {"no_trailing_spaces", "nested_compound_metadata"}
    THEN WARNING ELSE ERROR

\* for item in yaml_chunk, for a section value that may not be a list
IterItems(chunk) ==
    IF chunk.type = "MDBlockList" THEN Returned(chunk.items)
    ELSE IF chunk.type = "MDBlockDict"
    THEN Returned([i \in 1..Len(chunk.keys) |-> [type |-> "str"]])
    ELSE Raised("TypeError", "'MDBlockNode' object is not iterable")

\* unique_names and unique_titles on a section value: the loop over the
\* section value is reached only for the keywords the rule applies to, and a
\* str item cannot be subscripted with "name"
block_rule(lint, chunk, kw, lvl) ==
    LET applies == IF lint = "unique_names" THEN {"metadataBlock", "datasetField"}
                   ELSE {"datasetField"}
        items == IterItems(chunk)
    IN IF kw \notin applies THEN Returned(<<>>)
       ELSE IF items.raised THEN items
       ELSE IF \E i \in 1..Len(items.value) : IsStr(items.value[i])
       THEN Raised("TypeError", "string indices must be integers")
       ELSE IF lint = "unique_names" THEN unique_names(items.value, kw, lvl)
       ELSE unique_titles(items.value, kw, lvl)

\* the call lint(arg) or lint(arg, tsv_keyword) of a rule of the catalog at a
\* level
Lint(lint, arg, kw, lvl) ==
    CASE lint = "keywords_valid" -> Returned(keywords_valid(arg, lvl))
      [] lint = "keywords_unique" -> Returned(keywords_unique(arg, lvl))
      [] lint = "block_is_list" -> block_is_list(arg, lvl)
      [] lint \in {"unique_names", "unique_titles"} -> block_rule(lint, arg, kw, lvl)
      [] lint = "keys_valid" -> keys_valid(arg, kw, lvl)
      [] lint = "required_keys_present" -> required_keys_present(arg, kw, lvl)
      [] lint = "no_substructures" -> no_substructures(arg, kw, lvl)
      [] lint = "no_trailing_spaces" -> no_trailing_spaces(arg, kw, lvl)
      [] lint = "nested_compound_metadata" -> nested_compound_metadata(arg, kw, lvl)
      [] lint = "nested_compound_metadata_controlled_vocab" ->
            nested_compound_metadata_controlled_vocab(arg, kw, lvl)

\* ---- class LintConfig
\* overrides maps a rule to [kind |-> "level", level] (functools.partial with
\* level=...) or to [kind |-> "skip"] (lambda *x: [])
Exited(code) == [raised |-> TRUE, exc |-> "SystemExit", code |-> code]

error_override == [kind |-> "level", level |-> ERROR]
warning_override == [kind |-> "level", level |-> WARNING]
skip_override == [kind |-> "skip"]

\* from_cli_args that passes over the identifiers it does not find
from_cli_args_unknown_ignored(error, warn, skip) ==
    LET pairs == [i \in 1..Len(error) |-> <<error[i], error_override>>] \o
                 [i \in 1..Len(skip) |-> <<skip[i], skip_override>>]
        conf[n \in 0..Len(pairs)] ==
            IF n = 0 THEN <<>>
            ELSE IF pairs[n][1] \notin DOMAIN LINT_NAMES THEN conf[n - 1]
            ELSE DictSet(conf[n - 1], LINT_NAMES[pairs[n][1]], pairs[n][2])
    IN IF warn # <<>> THEN Raised("AttributeError", "warn")
       ELSE Returned(conf[Len(pairs)])

\* LintConfig.from_cli_args(error, warn, skip).  The list of (identifier,
\* method) pairs is built before the loop; building the pairs of warn reads
\* the attribute conf.warn, which LintConfig does not have (the method is
\* named warning).
from_cli_args(error, warn, skip) ==
    LET pairs == [i \in 1..Len(error) |-> <<error[i], error_override>>] \o
                 [i \in 1..Len(skip) |-> <<skip[i], skip_override>>]
        conf[n \in 0..Len(pairs)] ==
            IF n = 0 THEN Returned(<<>>)
            ELSE IF conf[n - 1].raised THEN conf[n - 1]
            ELSE IF pairs[n][1] \notin DOMAIN LINT_NAMES THEN Exited(1)
            ELSE Returned(DictSet(conf[n - 1].value, LINT_NAMES[pairs[n][1]],
                                  pairs[n][2]))
    IN IF warn # <<>> THEN Raised("AttributeError", "warn")
       ELSE conf[Len(pairs)]

\* the call as the commands mean it: the two arguments bound to warn and
\* skip, with no error list
call_from_cli_args_warn_skip(args) ==
    IF Len(args) = 3 THEN from_cli_args(args[1], args[2], args[3])
    ELSE from_cli_args(<<>>, args[1], args[2])

\* LintConfig.from_cli_args(*args), a call of the classmethod
\* from_cli_args(cls, error, warn, skip) with positional arguments: three
\* arguments are bound to error, warn and skip; two are bound to error and
\* warn, nothing is bound to skip, and the call raises TypeError before the
\* body runs
call_from_cli_args(args) ==
    IF Len(args) = 3 THEN from_cli_args(args[1], args[2], args[3])
    ELSE Raised("TypeError",
                "LintConfig.from_cli_args() missing 1 required positional argument: 'skip'")

\* lint_conf.get(lint) called with the arguments of the rule
get(overrides, lint, arg, kw) ==
    IF DictHas(overrides, lint) /\ DictGet(overrides, lint).kind = "skip"
    THEN Returned(<<>>)
    ELSE Lint(lint, arg, kw, IF DictHas(overrides, lint)
                             THEN DictGet(overrides, lint).level
                             ELSE DefaultLevel(lint))

-----------------------------------------------------------------------------
(* validation.py *)

\* A Document is [line, column, sections], sections being the insertion-ordered
\* mapping from section keyword to section value.

\* the number of columns of the record in the block
row_length(item, kw) ==
    IF kw = "metadataBlock" THEN Cardinality(DOMAIN item.fields)
    ELSE Cardinality(DOMAIN item.fields) + 1

Max(a, b) == IF a >= b THEN a ELSE b

\* the rules module rules defines; rules.<name> for any other name is an
\* AttributeError
RULES_MODULE == {LINT_NAMES[id] : id \in DOMAIN LINT_NAMES}

\* the list or tuple of rules a for statement runs over, written
\* [rules.a, rules.b, ...]: the attributes are looked up one after the other
\* when the display is evaluated, before the loop starts
rules_attributes(names) ==
    LET missing == {i \in 1..Len(names) : names[i] \notin RULES_MODULE}
    IN IF missing = {} THEN Returned(names)
       ELSE Raised("AttributeError",
                   names[CHOOSE i \in missing : \A j \in missing : i <= j])

\* for lint in lints: violations.extend(lint(...)), each rule at the default
\* of its level parameter
RunLints(lints, arg, kw) ==
    AllOf([i \in 1..Len(lints) |-> Lint(lints[i], arg, kw, DefaultLevel(lints[i]))])

\* longest_row = max(longest_row, ...) and violations.extend(...), unless
\* an exception ended the run
Extend(before, this) ==
    IF before.raised THEN before
    ELSE IF this.raised THEN this
    ELSE Returned([longest_row |-> Max(before.value.longest_row, this.value.longest_row),
                   violations |-> before.value.violations \o this.value.violations])

\* a list of violations as a (longest_row, violations) pair
Counted(found, longest_row) ==
    IF found.raised THEN found
    ELSE Returned([longest_row |-> longest_row, violations |-> found.value])

\* validate_keywords(keywords, verbose): the list of the three top-level
\* rules is built from rules.top_level_keywords_valid,
\* rules.top_level_keywords_unique and rules.top_level_keywords_complete,
\* none of which module rules defines
validate_keywords(kws, verbose) ==
    LET lints == rules_attributes(<<"top_level_keywords_valid",
                                    "top_level_keywords_unique",
                                    "top_level_keywords_complete">>)
    IN IF lints.raised THEN lints ELSE RunLints(lints.value, kws, "")

\* validate_entry(yaml_chunk, tsv_keyword, verbose): the tuple of the
\* block-content rule is built from rules.block_content_is_list, which module
\* rules does not define; behind it come rules.unique_names and, for each
\* item, the tuple of rules.required_keys_present,
\* rules.no_invalid_keys_present and rules.no_substructures_present and the
\* row length of the item
validate_entry(chunk, kw, verbose) ==
    LET block_lints == rules_attributes(<<"block_content_is_list">>)
        name_lints == rules_attributes(<<"unique_names">>)
        item_lints == rules_attributes(<<"required_keys_present",
                                         "no_invalid_keys_present",
                                         "no_substructures_present">>)
        items == IterItems(chunk)
        Item(item) ==
            IF item_lints.raised THEN item_lints
            ELSE Extend(Counted(RunLints(item_lints.value, item, kw), 0),
                        IF IsStr(item) THEN Raised("AttributeError", "keys")
                        ELSE Returned([longest_row |-> row_length(item, kw),
                                       violations |-> <<>>]))
        Block ==
            IF block_lints.raised THEN block_lints
            ELSE Extend(Counted(RunLints(block_lints.value, chunk, kw), 0),
                        IF name_lints.raised THEN name_lints
                        ELSE Counted(RunLints(name_lints.value, chunk,
                                              kw), 0))
        loop[n \in 0..(IF items.raised THEN 0 ELSE Len(items.value))] ==
            IF n = 0 THEN Block
            ELSE Extend(loop[n - 1], Item(items.value[n]))
    IN IF items.raised THEN Extend(Block, items) ELSE loop[Len(items.value)]

\* kw_order(kw): mdb_order[kw], the index of a keyword in
\* PERMISSIBLE_KEYWORDS counted from 0 as enumerate counts; a keyword that is
\* not permissible is a KeyError
kw_order(kw) ==
    IF \E i \in 1..Len(PERMISSIBLE_KEYWORDS) : PERMISSIBLE_KEYWORDS[i] = kw
    THEN Returned((CHOOSE i \in 1..Len(PERMISSIBLE_KEYWORDS) :
                      PERMISSIBLE_KEYWORDS[i] = kw) - 1)
    ELSE Raised("KeyError", kw)

\* validate_yaml(data, verbose): the top-level rules on data.keys(), then
\* validate_entry for each section in the order of data.items(); the pair
\* (longest_row, violations)
validate_yaml(data, verbose) ==
    LET sections == data.sections
        loop[n \in 0..Len(sections)] ==
            IF n = 0 THEN Counted(validate_keywords(DictKeys(sections), verbose), 0)
            ELSE Extend(loop[n - 1],
                        validate_entry(sections[n].entries, sections[n].key, verbose))
    IN loop[Len(sections)]

\* validation.validate_yaml(*args), a call of validate_yaml(data, verbose)
\* with positional arguments: two arguments are bound to data and verbose;
\* the three arguments (data, lint_conf, verbose) of the callers in
\* yaml_input.py and __main__.py are one too many, and the call raises
\* TypeError before the body runs
call_validate_yaml(args) ==
    IF Len(args) = 2 THEN validate_yaml(args[1], args[2])
    ELSE Raised("TypeError",
                "validate_yaml() takes 2 positional arguments but 3 were given")

-----------------------------------------------------------------------------
(* yaml_input.py, tsv_input.py (read_tsv), output.py: the two input paths *)

\* A schema is the content of a metadata block file: a sequence of
\* [key, entries] sections, entries being a list of records, a record a
\* sequence of <<field name, value>> pairs (or, in a YAML file only, a
\* section value that is a mapping or a scalar).

\* to_md_block_types on the value of a field of a record: a mapping is
\* wrapped in an MDBlockDict and a list in an MDBlockList, each at the
\* position of its opening bracket; any other value becomes an MDBlockNode at
\* the position of its key
YamlValue(key, value, line) ==
    IF value = MappingValue
    THEN [type |-> "MDBlockDict", line |-> line, column |-> 4 + Len(key) + 2]
    ELSE IF value = ListValue
    THEN [type |-> "MDBlockList", line |-> line, column |-> 4 + Len(key) + 2]
    ELSE [value |-> value, line |-> line, column |-> 4]

\* the record to_md_block_types builds from a YAML mapping that is an item
\* of a block sequence and starts at a line: the mapping carries the position
\* of its first key (column 4, behind the "- " of the item), each value the
\* position of its key, one field per line
YamlRecord(pairs, line) ==
    [line |-> line, column |-> 4,
     order |-> [i \in 1..Len(pairs) |-> pairs[i][1]],
     fields |-> [k \in {pairs[i][1] : i \in 1..Len(pairs)} |->
                    LET i == CHOOSE j \in 1..Len(pairs) : pairs[j][1] = k
                    IN YamlValue(pairs[i][1], pairs[i][2], line + i - 1)]]

\* to_md_block_types on the parsed YAML tree of a file that holds each
\* section keyword at column 0, followed on the next lines by the records of
\* its list or the keys of its mapping; a scalar, and an empty list or
\* mapping (written [] or {}), stand on the line of the keyword behind ": "
to_md_block_types(schema) ==
    LET IsList(e) == e.type = "list"
        IsDict(e) == e.type = "MDBlockDict"
        \* the number of lines of the first r records of a record list
        RecordLines(e, r) ==
            LET F[n \in 0..Len(e.records)] ==
                    IF n = 0 THEN 0 ELSE F[n - 1] + Len(e.records[n])
            IN F[r]
        \* the number of lines below the keyword that a section value takes
        SectionLines(e) ==
            IF IsList(e) THEN RecordLines(e, Len(e.records))
            ELSE IF IsDict(e) THEN Len(e.keys)
            ELSE 0
        \* the line of the keyword of section s
        SectionStart[s \in 1..Len(schema)] ==
            IF s = 1 THEN 0
            ELSE SectionStart[s - 1] + 1 + SectionLines(schema[s - 1].entries)
        Section(s) ==
            LET e == schema[s].entries
                key_line == SectionStart[s]
                first == key_line + 1
                beside == Len(schema[s].key) + 2
            IN IF IsList(e)
               THEN IF e.records = <<>>
                    THEN [type |-> "MDBlockList", line |-> key_line,
                          column |-> beside, items |-> <<>>]
                    ELSE [type |-> "MDBlockList", line |-> first, column |-> 2,
                          items |-> [r \in 1..Len(e.records) |->
                                       YamlRecord(e.records[r],
                                                  first + RecordLines(e, r - 1))]]
               ELSE IF IsDict(e)
               THEN IF e.keys = <<>>
                    THEN [e EXCEPT !.line = key_line, !.column = beside]
                    ELSE [e EXCEPT !.line = first, !.column = 2]
               \* parent.lc.key(parent_key): the position of the keyword
               ELSE [e EXCEPT !.line = key_line, !.column = 0]
    IN [line |-> 0, column |-> 0,
        sections |-> [s \in 1..Len(schema) |->
                        [key |-> schema[s].key, entries |-> Section(s)]]]

\* return data, longest_row, file_lint_violations
Read(data, validated) ==
    IF validated.raised THEN validated
    ELSE Returned([data |-> data, longest_row |-> validated.value.longest_row,
                   violations |-> validated.value.violations])

\* read_yaml(file_path, lint_conf, verbose): (data, longest_row,
\* file_lint_violations).  A duplicate key makes the parser raise
\* DuplicateKeyError, which is caught; for any other file the Document is
\* built and validation.validate_yaml(data, lint_conf, verbose) is called,
\* whose TypeError is not caught
read_yaml(content, overrides, verbose) ==
    IF content.duplicate_key
    THEN Returned([data |-> PyNone, longest_row |-> 0,
                   violations |-> << LintViolation(ERROR, "top_level_keywords_valid",
                                        "ruamel.yaml says '<problem>'", None, None) >>])
    ELSE Read(to_md_block_types(content.schema),
              call_validate_yaml(<<to_md_block_types(content.schema), overrides, verbose>>))

\* the text of a value in a cell of a TSV metadata block (true, false, null,
\* other)
TsvCell(value) ==
    IF value = TrueValue THEN "TRUE"
    ELSE IF value = FalseValue THEN "FALSE"
    ELSE IF value = NoneValue THEN ""
    ELSE value

\* The rows csv.DictReader gives for the blocks of the TSV file of a schema,
\* chained over the blocks: each row has the number of its block (offset), the
\* header of its first column ('#' and the section keyword) and its cells
\* under the headers of the other columns.
TsvRows(schema) ==
    LET Rows(s) ==
            LET records == schema[s].entries.records
            IN [r \in 1..Len(records) |->
                  [offset |-> s, toplevel_key |-> schema[s].key,
                   cells |-> [i \in 1..Len(records[r]) |->
                                <<records[r][i][1], TsvCell(records[r][i][2])>>]]]
        F[n \in 0..Len(schema)] == IF n = 0 THEN <<>> ELSE F[n - 1] \o Rows(n)
    IN F[Len(schema)]

\* the key csv.DictReader gives to the cells beyond the last header
NoneKey == "<None>"

\* the line of a row numbered without the header lines above it
offset_line_no_without_offset(line_no, offset) == line_no

\* offset_line_no = line_no + offset: the number of the row among the data
\* rows of the file plus the number of its block
offset_line_no(line_no, offset) == line_no + offset

\* read_tsv, the loop over the rows: every cell is a string node at line
\* line_no + offset, a section is created at its first row; the pair
\* (data, violations)
read_tsv(rows, break_point_violations) ==
    LET Kept(n) == SelectSeq(rows[n].cells,
                             LAMBDA c : c[1] # NoneKey /\ ~(c[1] = "" /\ c[2] = ""))
        Headerless(n) ==
            [i \in 1..Len(SelectSeq(rows[n].cells, LAMBDA c : c[1] = NoneKey)) |->
                LintViolation(ERROR, "read_tsv", "Entry in headerless column", None, None)]
        Record(n) ==
            LET kept == Kept(n)
                line == offset_line_no(n, rows[n].offset)
            IN [line |-> line, column |-> None,
                order |-> FirstOccurrences([i \in 1..Len(kept) |-> kept[i][1]]),
                fields |-> [k \in {kept[i][1] : i \in 1..Len(kept)} |->
                              LET i == CHOOSE j \in 1..Len(kept) :
                                          /\ kept[j][1] = k
                                          /\ \A m \in (j + 1)..Len(kept) : kept[m][1] # k
                              IN [value |-> kept[i][2], line |-> line, column |-> None]]]
        data[n \in 0..Len(rows)] ==
            IF n = 0 THEN <<>>
            ELSE LET key == rows[n].toplevel_key
                     before == data[n - 1]
                     block == IF DictHas(before, key) THEN DictGet(before, key)
                              ELSE [type |-> "MDBlockList", line |-> n, column |-> None,
                                    items |-> <<>>]
                 IN DictSet(before, key,
                            [block EXCEPT !.items = Append(@, Record(n))])
        violations[n \in 0..Len(rows)] ==
            IF n = 0 THEN break_point_violations
            ELSE violations[n - 1] \o Headerless(n)
    IN [data |-> [line |-> None, column |-> None, sections |-> data[Len(rows)]],
        violations |-> violations[Len(rows)]]

-----------------------------------------------------------------------------
(* output.py *)

\* The cells of the lines of the output file: a text, the name of a block
\* behind its '#', or str(value) of the value of a field.  The values of the
\* records of a Document are MDBlockNode, MDBlockDict or MDBlockList objects,
\* never True, False or None themselves; the str of an MDBlockNode is its
\* repr "(line, column) value", that of a mapping or a list its display,
\* and neither is empty.
Text(s) == [text |-> s]
BlockName(bn) == [marker |-> "#", text |-> bn]
Str(value) ==
    IF "value" \in DOMAIN value
    THEN [line |-> value.line, column |-> value.column, value |-> value.value]
    ELSE [display |-> value.type]

\* a line padded with empty cells to longest_line cells
Padded(cells, longest_line) ==
    IF Len(cells) < longest_line
    THEN cells \o [i \in 1..(longest_line - Len(cells)) |-> Text("")]
    ELSE cells

\* write_metadata_block(yml_metadata, output_path, longest_line, verbose):
\* the output file is opened for writing, then for each block its header
\* line and its lines are printed; an exception ends the loop and leaves in
\* the file what the blocks before it printed.  out_file is the lines of
\* the file, each a list of its tab-separated cells (an empty line is one
\* empty cell).
write_metadata_block(yml_metadata, longest_line) ==
    IF "type" \in DOMAIN yml_metadata
    THEN [out_file |-> <<>>,
          outcome |-> Raised("AttributeError",
                             "'NoneType' object has no attribute 'items'")]
    ELSE LET sections == yml_metadata.sections
             Block(s) ==
                 LET content == IterItems(sections[s].entries)
                     items == content.value
                     block_headers ==
                         LET F[n \in 0..Len(items)] ==
                                 IF n = 0 THEN <<>> ELSE F[n - 1] \o items[n].order
                         IN FirstOccurrences(F[Len(items)])
                     block_lines ==
                         [n \in 1..Len(items) |->
                             Padded(<<Text("")>> \o
                                    [i \in 1..Len(items[n].order) |->
                                        Str(items[n].fields[items[n].order[i]])],
                                    longest_line)]
                     block_header ==
                         Padded(<<BlockName(sections[s].key)>> \o
                                [i \in 1..Len(block_headers) |-> Text(block_headers[i])],
                                longest_line)
                 IN IF content.raised THEN content
                    ELSE IF \E n \in 1..Len(items) : IsStr(items[n])
                    THEN Raised("AttributeError", "'str' object has no attribute 'items'")
                    ELSE Returned(<<block_header>> \o
                                  (IF block_lines = <<>> THEN <<<<Text("")>>>>
                                   ELSE block_lines))
             loop[n \in 0..Len(sections)] ==
                 IF n = 0 THEN [out_file |-> <<>>, outcome |-> Returned(PyNone)]
                 ELSE IF loop[n - 1].outcome.raised THEN loop[n - 1]
                 ELSE IF Block(n).raised
                 THEN [out_file |-> loop[n - 1].out_file, outcome |-> Block(n)]
                 ELSE [out_file |-> loop[n - 1].out_file \o Block(n).value,
                       outcome |-> Returned(PyNone)]
         IN loop[Len(sections)]

-----------------------------------------------------------------------------
(* __main__.py *)

\* A file path is [root, ext], the two parts os.path.splitext gives; ext is a
\* sequence of characters.

\* str.lower on the characters of the extensions
LowerChar(c) ==
    CASE c = "T" -> "t" [] c = "S" -> "s" [] c = "V" -> "v" [] c = "Y" -> "y"
      [] c = "A" -> "a" [] c = "M" -> "m" [] c = "L" -> "l" [] c = "C" -> "c"
      [] c = "X" -> "x" [] OTHER -> c
Lower(ext) == [i \in 1..Len(ext) |-> LowerChar(ext[i])]

\* guess_input_type without ext.lower()
guess_input_type_case_sensitive(input_path) ==
    LET ext == input_path.ext
    IN IF ext = <<".", "t", "s", "v">> THEN [input_type |-> "tsv", violations |-> <<>>]
       ELSE IF ext = <<".", "c", "s", "v">>
       THEN [input_type |-> "csv",
             violations |-> << LintViolation(WARNING, "guess_input_type",
                                  [invalid_extension |-> ext], None, None) >>]
       ELSE IF ext \in {<<".", "y", "m", "l">>, <<".", "y", "a", "m", "l">>}
       THEN [input_type |-> "yaml", violations |-> <<>>]
       ELSE [input_type |-> FalseValue,
             violations |-> << LintViolation(ERROR, "guess_input_type",
                                  [invalid_extension |-> ext], None, None) >>]

\* guess_input_type: (input type, violations)
guess_input_type(input_path) ==
    LET ext == Lower(input_path.ext)
    IN IF ext = <<".", "t", "s", "v">> THEN [input_type |-> "tsv", violations |-> <<>>]
       ELSE IF ext = <<".", "c", "s", "v">>
       THEN [input_type |-> "csv",
             violations |-> << LintViolation(WARNING, "guess_input_type",
                                  [invalid_extension |-> ext], None, None) >>]
       ELSE IF ext \in {<<".", "y", "m", "l">>, <<".", "y", "a", "m", "l">>}
       THEN [input_type |-> "yaml", violations |-> <<>>]
       ELSE [input_type |-> FalseValue,
             violations |-> << LintViolation(ERROR, "guess_input_type",
                                  [invalid_extension |-> ext], None, None) >>]

\* ViolationsByFile.add: self.violations[file_path].append(violation); the
\* defaultdict creates the list of the file at its first violation
add(violations_by_file, file_path, violation) ==
    DictSet(violations_by_file, file_path,
            Append(IF DictHas(violations_by_file, file_path)
                   THEN DictGet(violations_by_file, file_path) ELSE <<>>,
                   violation))

\* ViolationsByFile.extend: add for each (file_path, violation) tuple of the
\* list
extend(violations_by_file, violation_list) ==
    LET F[n \in 0..Len(violation_list)] ==
            IF n = 0 THEN violations_by_file
            ELSE add(F[n - 1], violation_list[n][1], violation_list[n][2])
    IN F[Len(violation_list)]

\* ViolationsByFile.extend_for: add for each violation of the list, so a path
\* with an empty list gets no entry
extend_for(violations_by_file, file_path, violation_list) ==
    LET F[n \in 0..Len(violation_list)] ==
            IF n = 0 THEN violations_by_file
            ELSE add(F[n - 1], file_path, violation_list[n])
    IN F[Len(violation_list)]

\* min(violations, key=lambda x: x.level).level
MinLevel(violations) ==
    CHOOSE l \in {violations[i].level : i \in 1..Len(violations)} :
        \A i \in 1..Len(violations) : l <= violations[i].level

\* ViolationsByFile.__iter__: (filename, violations, level) tuples
ViolationsIter(violations_by_file) ==
    [i \in 1..Len(violations_by_file) |->
        [filename |-> violations_by_file[i].key,
         violations |-> violations_by_file[i].entries,
         level |-> MinLevel(violations_by_file[i].entries)]]

\* file_path in lint_violations: ViolationsByFile has no __contains__, so the
\* tuples __iter__ yields are compared with the path, and a tuple does not
\* equal a string
Contains(violations_by_file, file_path) ==
    \E i \in 1..Len(ViolationsIter(violations_by_file)) :
        /\ "filename" \in DOMAIN file_path
        /\ ViolationsIter(violations_by_file)[i] = file_path

\* return_violations with the severity of the last file only
return_violations_last_file(violations_by_file, warn_ec) ==
    IF Len(violations_by_file) = 0 THEN 0
    ELSE LET max_severity ==
                 ViolationsIter(violations_by_file)[Len(violations_by_file)].level
         IN IF max_severity = ERROR THEN 1
            ELSE IF max_severity = WARNING THEN warn_ec
            ELSE 1

\* return_violations: the status the process exits with
return_violations(violations_by_file, warn_ec) ==
    IF Len(violations_by_file) = 0 THEN 0
    ELSE LET files == ViolationsIter(violations_by_file)
             \* max_severity after the first n files; None before the first
             sev[n \in 0..Len(files)] ==
                 IF n = 0 THEN None
                 ELSE IF sev[n - 1] = None \/ files[n].level < sev[n - 1]
                 THEN files[n].level ELSE sev[n - 1]
             max_severity == sev[Len(files)]
         IN IF max_severity = ERROR THEN 1
            ELSE IF max_severity = WARNING THEN warn_ec
            ELSE 1

\* return_violations, what the loop prints above the violations of each file:
\* the path, the number of violations, and max_severity as it stands when
\* the file is reached
printed_headings(violations_by_file) ==
    LET files == ViolationsIter(violations_by_file)
        sev[n \in 0..Len(files)] ==
            IF n = 0 THEN None
            ELSE IF sev[n - 1] = None \/ files[n].level < sev[n - 1]
            THEN files[n].level ELSE sev[n - 1]
    IN [n \in 1..Len(files) |->
          [file_path |-> files[n].filename, total |-> Len(files[n].violations),
           highest |-> sev[n]]]

\* The state in which a run of convert ends.  run_conf is the outcome of
\* from_cli_args, returned the exception that ended the run after the
\* configuration; return_violations prints the files before it exits.
RunEnded(conf, recorded, read, written, lines, pc, exception, code) ==
    [run_conf |-> conf, lint_violations |-> recorded, files_read |-> read,
     output_written |-> written, out_file |-> lines, run_pc |-> pc,
     returned |-> exception, exit_code |-> code,
     printed |-> IF pc = "exited" THEN printed_headings(recorded) ELSE <<>>]

\* convert from output.write_metadata_block(data, outfile, longest_row,
\* verbose) on: the output file was opened; an exception of the writer ends
\* the run, otherwise return_violations does
convert_written(file, conf, recorded, written, warn_ec) ==
    IF written.outcome.raised
    THEN RunEnded(conf, recorded, {file.path}, TRUE, written.out_file, "aborted",
                  written.outcome, 1)
    ELSE RunEnded(conf, recorded, {file.path}, TRUE, written.out_file, "exited",
                  PyNone, return_violations(recorded, warn_ec))

\* convert from lint_violations.extend_for(file_path, file_lint_violations)
\* on: the violations of the file are recorded, the output is written behind
\* the test 'input_type == "yaml" and file_path not in lint_violations', then
\* return_violations ends the run.  For an unsupported extension no file was
\* opened and data is not bound; the test fails on input_type.
convert_read(file, conf, input_type, for_parsing, read, warn_ec) ==
    IF read.raised
    THEN RunEnded(conf, for_parsing, {file.path}, FALSE, <<>>, "aborted", read, 1)
    ELSE IF input_type = "yaml" /\
            ~Contains(extend_for(for_parsing, file.path, read.value.violations),
                      file.path)
    THEN convert_written(file, conf,
                         extend_for(for_parsing, file.path, read.value.violations),
                         write_metadata_block(read.value.data, read.value.longest_row),
                         warn_ec)
    ELSE RunEnded(conf, extend_for(for_parsing, file.path, read.value.violations),
                  IF input_type = FalseValue THEN {} ELSE {file.path},
                  FALSE, <<>>, "exited", PyNone,
                  return_violations(
                      extend_for(for_parsing, file.path, read.value.violations),
                      warn_ec))

\* convert, the branch 'elif input_type in ("tsv", "csv")': read_tsv, its
\* violations recorded, then validation.validate_yaml(data, lint_conf, verbose)
convert_tsv(file, conf, guessed, tsv, warn_ec) ==
    convert_read(file, conf, guessed.input_type,
                 extend_for(extend_for(<<>>, file.path, guessed.violations),
                            file.path, tsv.violations),
                 Read(tsv.data, call_validate_yaml(<<tsv.data, conf.value, 0>>)),
                 warn_ec)

\* convert from input_type, file_ext_violations = guess_input_type(file_path)
\* on: the violations of the extension are recorded and the file is read by
\* the reader of its type
convert_guessed(file, conf, guessed, warn_ec) ==
    IF guessed.input_type \in {"tsv", "csv"}
    THEN convert_tsv(file, conf, guessed,
                     read_tsv(TsvRows(file.content.schema), <<>>), warn_ec)
    ELSE convert_read(file, conf, guessed.input_type,
                      extend_for(<<>>, file.path, guessed.violations),
                      IF guessed.input_type = "yaml"
                      THEN read_yaml(file.content, conf.value, 0)
                      ELSE Returned([longest_row |-> 0, violations |-> <<>>]),
                      warn_ec)

\* convert from lint_conf = LintConfig.from_cli_args(warn, skip) on: an
\* exception of the call ends the run before the file is looked at
convert_configured(file, conf, warn_ec) ==
    IF conf.raised THEN RunEnded(conf, <<>>, {}, FALSE, <<>>, "aborted", PyNone, 1)
    ELSE convert_guessed(file, conf, guess_input_type(file.path), warn_ec)

\* convert(file_path, warn, skip, warn_ec, verbose, outfile) for a path that is
\* not empty and verbose 0: the state in which the command ends.  An
\* exception ends the run where it is raised: in from_cli_args before the file
\* is looked at, in the reader or in validate_yaml after the violations of
\* the extension (and of the TSV parser) were recorded, in
\* write_metadata_block after the output file was opened.
convert(file, warn, skip, warn_ec) ==
    convert_configured(file, call_from_cli_args(<<warn, skip>>), warn_ec)

-----------------------------------------------------------------------------
(* The inputs of the model *)

\* top-level keywords: the three permissible ones and a misspelt one
KeywordInputs == {"metadataBlock", "datasetField", "controlledVocabulary", "dataseField"}

\* The records of a chunk as the TSV reader builds them for the rows of the
\* first section: record i and its nodes carry line i + 1 and no column.
MkItem(i, flds) ==
    [line |-> i + 1, column |-> None,
     fields |-> [k \in DOMAIN flds |->
                    [value |-> flds[k], line |-> i + 1, column |-> None]]]
MkChunk(fs) == [i \in 1..Len(fs) |-> MkItem(i, fs[i])]

\* field sets of the records given to unique_names: a record has a name or
\* lacks it, names differ by case or by letter
NameFieldInputs ==
    {[displayName |-> "d"]} \cup
    {[name |-> n, displayName |-> "d"] : n \in {"a", "A", "b"}}

\* field sets of the records given to unique_titles: title and parent are each
\* present or missing, the parent of a top-level field is None
TitleFieldInputs ==
    {[name |-> "n"]} \cup
    {[name |-> "n", title |-> t] : t \in {"t", "u"}} \cup
    {[name |-> "n", parent |-> q] : q \in {NoneValue, "p"}} \cup
    {[name |-> "n", title |-> t, parent |-> q] :
        t \in {"t", "u"}, q \in {NoneValue, "p"}}

\* lines of a TSV file: a section header, a data row, a data row holding a
\* '#' after its first character, an empty line
LineInputs ==
    { <<"#", "k", "\t", "n", "\n">>, <<"\t", "v", "\n">>,
      <<"\t", "#", "\n">>, <<"\n">> }

\* keywords, as sequences of characters
W_fooBarBaz == <<"f", "o", "o", "B", "a", "r", "B", "a", "z">>
W_fooBarTest == <<"f", "o", "o", "B", "a", "r", "T", "e", "s", "t">>
W_fooBar == <<"f", "o", "o", "B", "a", "r">>
W_1FooBar == <<"1", "F", "o", "o", "B", "a", "r">>
W_2FooBar == <<"2", "F", "o", "o", "B", "a", "r">>
W_3FooBar == <<"3", "F", "o", "o", "B", "a", "r">>
W_Foo1 == <<"F", "o", "o", "1">>
W_Foo2 == <<"F", "o", "o", "2">>
W_Foo3 == <<"F", "o", "o", "3">>
W_FooBarLong == <<"F", "o", "o", "B", "a", "r", "L", "o", "n", "g">>
W_FooBarShort == <<"F", "o", "o", "B", "a", "r", "S", "h", "o", "r", "t">>
W_FooBarLonger == <<"F", "o", "o", "B", "a", "r", "L", "o", "n", "g", "e", "r">>
W_FoobarAttr1 == <<"F", "o", "o", "b", "a", "r", "A", "t", "t", "r", "1">>
W_FoobarAttrZwo == <<"F", "o", "o", "b", "a", "r", "A", "t", "t", "r", "Z", "w", "o">>
W_FoobarAttrDrei == <<"F", "o", "o", "b", "a", "r", "A", "t", "t", "r", "D", "r", "e", "i">>
W_FoobraAttrNrVier == <<"F", "o", "o", "b", "r", "a", "A", "t", "t", "r", "N", "r", "V", "i", "e", "r">>
W_FXobraAttrNrVier == <<"F", "X", "o", "b", "r", "a", "A", "t", "t", "r", "N", "r", "V", "i", "e", "r">>
W_Bar == <<"B", "a", "r">>
W_abcd == <<"a", "b", "c", "d">>
W_abce == <<"a", "b", "c", "e">>
W_abx == <<"a", "b", "x">>
W_bacd == <<"b", "a", "c", "d">>
W_ab == <<"a", "b">>

\* the keyword lists of the unit tests and of the docstring
KwsOneGroup == <<W_fooBarBaz, W_fooBarTest, W_fooBar>>
KwsNoPrefix == <<W_1FooBar, W_2FooBar, W_3FooBar>>
KwsMinPrefLen == <<W_Foo1, W_Foo2, W_Foo3>>
KwsLongestBinding == <<W_FooBarLong, W_FooBarShort, W_FooBarLonger>>
KwsTypoDistance1 ==
    <<W_FoobarAttr1, W_FoobarAttrZwo, W_FoobarAttrDrei, W_FoobraAttrNrVier, W_Bar>>
KwsTypoDistance2 ==
    <<W_FoobarAttr1, W_FoobarAttrZwo, W_FoobarAttrDrei, W_FXobraAttrNrVier, W_Bar>>
TestKeywordLists ==
    {KwsOneGroup, KwsNoPrefix, KwsMinPrefLen, KwsLongestBinding,
     KwsTypoDistance1, KwsTypoDistance2}

\* short keywords: two sharing "abc", one sharing only "ab" with them, "ab"
\* itself, and one that is "abcd" with its first two characters transposed
ShortKeywords == {W_abcd, W_abce, W_abx, W_bacd, W_ab}

KeywordListInputs == TestKeywordLists \cup SeqsUpTo(ShortKeywords, MaxPrefixKeywords)

\* min_prefix_length: the default 3, and the values around it
MinPrefixLengthInputs == {2, 3, 4}

\* ---- schemas
\* a field a record does not have
Absent == "<absent>"
Present(pairs) == SelectSeq(pairs, LAMBDA p : p[2] # Absent)

\* metadataBlock records: complete, without name, with a trailing space in
\* the name, with a misspelt key
MetadataBlockRecords ==
    { <<<<"name", "a">>, <<"displayName", "d">>>>,
      <<<<"displayName", "d">>>>,
      <<<<"name", "a ">>, <<"displayName", "d">>>>,
      <<<<"name", "a">>, <<"displayNam", "d">>>> }

\* a datasetField record with all required fields but the absent ones
DatasetField(name, title, parent, allowmultiples, allowControlledVocabulary) ==
    Present(<< <<"name", name>>, <<"title", title>>, <<"description", "x">>,
               <<"fieldType", "text">>, <<"displayOrder", "1">>,
               <<"advancedSearchField", FalseValue>>,
               <<"allowControlledVocabulary", allowControlledVocabulary>>,
               <<"allowmultiples", allowmultiples>>, <<"facetable", FalseValue>>,
               <<"displayoncreate", TrueValue>>, <<"required", FalseValue>>,
               <<"parent", parent>>, <<"metadatablock_id", "a">> >>)

\* datasetField records: a top-level field, a child that allows multiple
\* values without and with a controlled vocabulary, and records that lack
\* parent, title, name, allowmultiples or allowControlledVocabulary
DatasetFieldRecords ==
    { DatasetField("n", "t", NoneValue, FalseValue, FalseValue),
      DatasetField("n", "t", "p", TrueValue, FalseValue),
      DatasetField("n", "t", "p", TrueValue, TrueValue),
      DatasetField("n", "t", Absent, FalseValue, FalseValue),
      DatasetField("n", Absent, NoneValue, FalseValue, FalseValue),
      DatasetField(Absent, "t", NoneValue, FalseValue, FalseValue),
      DatasetField("n", "t", "p", Absent, FalseValue),
      DatasetField("n", "t", "p", TrueValue, Absent) }

\* field sets of the records given to the two nested-compound rules: each of
\* name, parent, allowmultiples and allowControlledVocabulary is present or
\* missing; the flags are booleans as the YAML reader gives them or the
\* strings of a TSV cell
NestedCompoundFieldInputs ==
    { [k \in {x \in {"name", "parent", "allowmultiples", "allowControlledVocabulary"} :
                 f[x] # Absent} |-> f[k]] :
        f \in [name : {Absent, "n"},
               parent : {Absent, NoneValue, "p"},
               allowmultiples : {Absent, TrueValue, FalseValue, "TRUE"},
               allowControlledVocabulary : {Absent, TrueValue, FalseValue, "FALSE"}] }

\* a section that is a list of records
RecordList(records) == [type |-> "list", records |-> records]

\* the controlledVocabulary section: a list of one record, or (YAML only) a
\* mapping or a scalar where the list belongs
ControlledVocabularyValues ==
    { RecordList(<< <<<<"DatasetField", "n">>, <<"Value", "v">>>> >>),
      [type |-> "MDBlockDict", keys |-> <<"DatasetField", "Value">>,
       line |-> 0, column |-> 2],
      [type |-> "MDBlockNode", value |-> "v", line |-> 0, column |-> 2] }

SchemaInputs ==
    { << [key |-> "metadataBlock", entries |-> RecordList(mb)],
         [key |-> "datasetField", entries |-> RecordList(df)] >> \o cv :
        mb \in SeqsUpTo(MetadataBlockRecords, 1),
        df \in SeqsUpTo(DatasetFieldRecords, MaxFieldRecords),
        cv \in {<<>>} \cup {<< [key |-> "controlledVocabulary", entries |-> v] >> :
                              v \in ControlledVocabularyValues} }

\* schemas whose sections are not in the order metadataBlock, datasetField,
\* controlledVocabulary; the datasetField section has two records of the
\* same name, the first with a trailing space in its title, the second a
\* child that allows multiple values
ReorderedSchemaInputs ==
    LET fields == [key |-> "datasetField",
                   entries |-> RecordList(
                       << DatasetField("n", "t ", NoneValue, FalseValue, FalseValue),
                          DatasetField("n", "t", "p", TrueValue, FalseValue) >>)]
        block(record) == [key |-> "metadataBlock", entries |-> RecordList(<<record>>)]
        vocabulary == [key |-> "controlledVocabulary",
                       entries |-> RecordList(<< <<<<"DatasetField", "n">>,
                                                  <<"Value", "t ">>>> >>)]
    IN { <<fields, block(<<<<"name", "a ">>, <<"displayName", "d">>>>)>>,
         <<fields, block(<<<<"name", "a">>, <<"displayNam", "d">>>>)>>,
         <<vocabulary, block(<<<<"name", "a ">>, <<"displayName", "d">>>>), fields>> }

\* schemas with a record that holds a mapping or a list where a scalar
\* belongs, in a field whose value no rule reads
NestedSchemaInputs ==
    { << [key |-> "metadataBlock",
          entries |-> RecordList(<< <<<<"name", "a">>, <<"displayName", nested>>>> >>)],
         [key |-> "datasetField",
          entries |-> RecordList(
              << DatasetField("n", "t", NoneValue, FalseValue, FalseValue) >>)] >> :
        nested \in {MappingValue, ListValue} }

\* a schema a TSV file can hold: every section is a list of records with
\* the columns of the header row of the section, every value is a scalar
IsTabular(schema) ==
    \A s \in 1..Len(schema) :
        /\ schema[s].entries.type = "list"
        /\ \A r1, r2 \in Range(schema[s].entries.records) :
               [i \in 1..Len(r1) |-> r1[i][1]] = [i \in 1..Len(r2) |-> r2[i][1]]
        /\ \A r \in Range(schema[s].entries.records) :
               \A i \in 1..Len(r) : r[i][2] \notin {MappingValue, ListValue}

\* identifiers given on the command line: a short code, a full name, and a
\* name that is not in the catalog
CliIdentifiers == {"b001", "nested_compound_metadata", "nested_metadata"}
CliInputs ==
    [error : SeqsUpTo(CliIdentifiers, MaxIdentifiers),
     warn : {<<>>, <<"e004">>},
     skip : SeqsUpTo(CliIdentifiers, MaxIdentifiers)]

\* ---- runs
Content(schema) == [duplicate_key |-> FALSE, schema |-> schema]
\* a schema of one metadataBlock record and one top-level datasetField record
SchemaOf(block_record) ==
    << [key |-> "metadataBlock", entries |-> RecordList(<<block_record>>)],
       [key |-> "datasetField",
        entries |-> RecordList(<<DatasetField("n", "t", NoneValue, FalseValue,
                                              FalseValue)>>)] >>
\* no violation; a WARNING (trailing space); ERRORs (misspelt key); a rule
\* raises (no name)
SchemaValid == SchemaOf(<<<<"name", "a">>, <<"displayName", "d">>>>)
SchemaWarning == SchemaOf(<<<<"name", "a ">>, <<"displayName", "d">>>>)
SchemaError == SchemaOf(<<<<"name", "a">>, <<"displayNam", "d">>>>)
SchemaRaising == SchemaOf(<<<<"displayName", "d">>>>)

\* a YAML file in which a key occurs twice, and whose records would draw a
\* WARNING if they were validated
DuplicateKeyContent == [duplicate_key |-> TRUE, schema |-> SchemaWarning]

File(root, ext, content) == [path |-> [root |-> root, ext |-> ext], content |-> content]
FileInputs ==
    { File("ok", <<".", "y", "m", "l">>, Content(SchemaValid)),
      File("ok", <<".", "T", "S", "V">>, Content(SchemaValid)),
      File("warn", <<".", "Y", "a", "m", "l">>, Content(SchemaWarning)),
      File("warn", <<".", "t", "s", "v">>, Content(SchemaWarning)),
      File("err", <<".", "y", "m", "l">>, Content(SchemaError)),
      File("dup", <<".", "y", "a", "m", "l">>, DuplicateKeyContent),
      File("raise", <<".", "y", "m", "l">>, Content(SchemaRaising)),
      File("ok", <<".", "c", "s", "v">>, Content(SchemaValid)),
      File("ok", <<".", "x", "l", "s", "x">>, Content(SchemaValid)),
      File("ok", <<>>, Content(SchemaValid)) }

\* the --warn and --skip lists of a run (the commands have no other list
\* option): none, a rule skipped, a rule as warning, an identifier that is
\* not in the catalog
RunCliInputs ==
    { [warn |-> <<>>, skip |-> <<>>],
      [warn |-> <<>>, skip |-> <<"e004">>],
      [warn |-> <<"e004">>, skip |-> <<>>],
      [warn |-> <<>>, skip |-> <<"nested_metadata">>],
      [warn |-> <<"nested_metadata">>, skip |-> <<>>] }
WarnEcInputs == {0, 2}

\* the violation lists recorded for a file: the WARNING of a .csv path, the
\* ERROR of an unsupported extension, the ERROR of a duplicate key, and the
\* WARNING of a .csv path followed by an ERROR of its content
ViolationListInputs ==
    { guess_input_type([root |-> "ok", ext |-> <<".", "c", "s", "v">>]).violations,
      guess_input_type([root |-> "ok", ext |-> <<".", "x", "l", "s", "x">>]).violations,
      read_yaml(DuplicateKeyContent, <<>>, 0).value.violations,
      guess_input_type([root |-> "ok", ext |-> <<".", "c", "s", "v">>]).violations \o
          << LintViolation(ERROR, "keywords_unique", "<message>", None, None) >> }

\* the paths violations are recorded for
RecordedPathInputs ==
    { [root |-> "ok", ext |-> <<".", "c", "s", "v">>],
      [root |-> "warn", ext |-> <<".", "t", "s", "v">>],
      [root |-> "err", ext |-> <<".", "y", "m", "l">>] }

\* the ViolationsByFile after extend_for was called for each pair of a
\* sequence of (path, violation list) pairs
ViolationsByFileOf(pairs) ==
    LET F[n \in 0..Len(pairs)] ==
            IF n = 0 THEN <<>>
            ELSE extend_for(F[n - 1], pairs[n][1], pairs[n][2])
    IN F[Len(pairs)]
ViolationsByFileInputs ==
    { ViolationsByFileOf(pairs) :
        pairs \in SeqsUpTo(RecordedPathInputs \X ViolationListInputs, MaxFiles) }

\* the (path, violation) tuples given to ViolationsByFile.add and, in lists,
\* to ViolationsByFile.extend
ViolationInputs ==
    RecordedPathInputs \X UNION {Range(l) : l \in ViolationListInputs}

\* the Documents given to write_metadata_block: those the YAML reader builds
\* from the schemas, and None, the data read_yaml returns for a file with a
\* duplicate key
WriteDataInputs ==
    {PyNone} \cup {to_md_block_types(s) : s \in SchemaInputs \cup NestedSchemaInputs}

\* longest_line: none, shorter than a datasetField row, the row length of a
\* complete datasetField record
LongestLineInputs == {0, 3, 14}

-----------------------------------------------------------------------------
(* The state machines *)

NoResult == Returned(<<>>)

RulesIdle ==
    /\ rules_pc = "idle" /\ rule = "none" /\ keywords_arg = <<>>
    /\ yaml_chunk = <<>> /\ tsv_keyword = "none" /\ level = ERROR
    /\ rule_result = NoResult

SplitIdle ==
    /\ split_pc = "idle" /\ full_file = <<>> /\ split_blocks = <<>>
    /\ bp_violations = <<>>

NoCall == [made |-> FALSE]

PrefixIdle ==
    /\ prefix_pc = "idle" /\ entry = "none" /\ caller_keywords = <<>>
    /\ keywords = <<>> /\ aliased = FALSE /\ min_prefix_length = 0
    /\ dl_distance_threshold = 0 /\ selected_keyword = <<>>
    /\ current_group = <<>> /\ current_prefix = NonePrefix /\ kw_idx = 0
    /\ identified_groups = <<>> /\ typo_candidates = <<>> /\ call_arg = <<>>
    /\ previous_call = NoCall

LintIdle ==
    /\ lint_pc = "idle" /\ file_content = <<>> /\ file_type = "none"
    /\ cli_args = [error |-> <<>>, warn |-> <<>>, skip |-> <<>>]
    /\ lint_conf = Returned(<<>>) /\ document = PyNone /\ validation = NoResult

RunIdle ==
    /\ run_pc = "idle" /\ command = "none"
    /\ run_args = [warn |-> <<>>, skip |-> <<>>, warn_ec |-> 0, files |-> <<>>,
                   args |-> <<>>]
    /\ run_conf = Returned(<<>>) /\ file_idx = 0 /\ lint_violations = <<>>
    /\ files_read = {} /\ files_validated = {} /\ output_written = FALSE
    /\ printed = <<>> /\ returned = PyNone /\ out_file = <<>> /\ exit_code = None

EngineIdle == LintIdle /\ RunIdle

\* a call of one lint rule with its arguments
InitRules ==
    /\ SplitIdle /\ PrefixIdle /\ EngineIdle
    /\ rules_pc = "ready"
    /\ rule_result = NoResult
    /\ level \in Levels
    /\ rule \in {"keywords_valid", "unique_names", "unique_titles",
                 "nested_compound_metadata",
                 "nested_compound_metadata_controlled_vocab"}
    /\ \/ /\ rule = "keywords_valid"
          /\ keywords_arg \in SeqsUpTo(KeywordInputs, MaxKeywords)
          /\ yaml_chunk = <<>> /\ tsv_keyword = "none"
       \/ /\ rule = "unique_names"
          /\ keywords_arg = <<>>
          /\ tsv_keyword \in Range(PERMISSIBLE_KEYWORDS)
          /\ \E fs \in SeqsUpTo(NameFieldInputs, MaxRecords) : yaml_chunk = MkChunk(fs)
       \/ /\ rule = "unique_titles"
          /\ keywords_arg = <<>>
          /\ tsv_keyword \in Range(PERMISSIBLE_KEYWORDS)
          /\ \E fs \in SeqsUpTo(TitleFieldInputs, MaxRecords) : yaml_chunk = MkChunk(fs)
       \/ /\ rule \in {"nested_compound_metadata",
                       "nested_compound_metadata_controlled_vocab"}
          /\ keywords_arg = <<>>
          /\ tsv_keyword \in Range(PERMISSIBLE_KEYWORDS)
          /\ \E f \in NestedCompoundFieldInputs : yaml_chunk = MkChunk(<<f>>)

Call_keywords_valid ==
    /\ rules_pc = "ready" /\ rule = "keywords_valid"
    /\ rule_result' = Returned(keywords_valid(keywords_arg, level))
    /\ rules_pc' = "done"
    /\ UNCHANGED <<rule, keywords_arg, yaml_chunk, tsv_keyword, level, split_vars, prefix_vars, engine_vars>>

Call_unique_names ==
    /\ rules_pc = "ready" /\ rule = "unique_names"
    /\ rule_result' = unique_names(yaml_chunk, tsv_keyword, level)
    /\ rules_pc' = "done"
    /\ UNCHANGED <<rule, keywords_arg, yaml_chunk, tsv_keyword, level, split_vars, prefix_vars, engine_vars>>

Call_unique_titles ==
    /\ rules_pc = "ready" /\ rule = "unique_titles"
    /\ rule_result' = unique_titles(yaml_chunk, tsv_keyword, level)
    /\ rules_pc' = "done"
    /\ UNCHANGED <<rule, keywords_arg, yaml_chunk, tsv_keyword, level, split_vars, prefix_vars, engine_vars>>

\* the rule is called on one record, the only one of the chunk
Call_nested_compound_metadata ==
    /\ rules_pc = "ready" /\ rule = "nested_compound_metadata"
    /\ rule_result' = nested_compound_metadata(yaml_chunk[1], tsv_keyword, level)
    /\ rules_pc' = "done"
    /\ UNCHANGED <<rule, keywords_arg, yaml_chunk, tsv_keyword, level, split_vars, prefix_vars, engine_vars>>

Call_nested_compound_metadata_controlled_vocab ==
    /\ rules_pc = "ready" /\ rule = "nested_compound_metadata_controlled_vocab"
    /\ rule_result' = nested_compound_metadata_controlled_vocab(yaml_chunk[1],
                                                                tsv_keyword, level)
    /\ rules_pc' = "done"
    /\ UNCHANGED <<rule, keywords_arg, yaml_chunk, tsv_keyword, level, split_vars, prefix_vars, engine_vars>>

NextRules ==
    \/ Call_keywords_valid
    \/ Call_unique_names
    \/ Call_unique_titles
    \/ Call_nested_compound_metadata
    \/ Call_nested_compound_metadata_controlled_vocab

SpecRules == InitRules /\ [][NextRules]_vars

\* a call of _identify_break_points on the lines of a file
InitSplit ==
    /\ RulesIdle /\ PrefixIdle /\ EngineIdle
    /\ split_pc = "ready"
    /\ full_file \in SeqsUpTo(LineInputs, MaxLines)
    /\ split_blocks = <<>> /\ bp_violations = <<>>

Call_identify_break_points ==
    /\ split_pc = "ready"
    /\ split_blocks' = identify_break_points(full_file)[1]
    /\ bp_violations' = identify_break_points(full_file)[2]
    /\ split_pc' = "done"
    /\ UNCHANGED <<full_file, rules_vars, prefix_vars, engine_vars>>

NextSplit == Call_identify_break_points

SpecSplit == InitSplit /\ [][NextSplit]_vars

\* a caller holding a keyword list
InitPrefix ==
    /\ RulesIdle /\ SplitIdle /\ EngineIdle
    /\ prefix_pc = "ready" /\ entry = "none"
    /\ caller_keywords \in KeywordListInputs
    /\ keywords = <<>> /\ aliased = FALSE /\ min_prefix_length = 0
    /\ dl_distance_threshold = 0 /\ selected_keyword = <<>>
    /\ current_group = <<>> /\ current_prefix = NonePrefix /\ kw_idx = 0
    /\ identified_groups = <<>> /\ typo_candidates = <<>> /\ call_arg = <<>>
    /\ previous_call = NoCall

\* entering split_by_common_prefixes: keywords is the caller's list object,
\* identified_groups = {}
Enter(fn, min, threshold) ==
    /\ entry' = fn
    /\ min_prefix_length' = min
    /\ dl_distance_threshold' = threshold
    /\ keywords' = caller_keywords
    /\ aliased' = TRUE
    /\ call_arg' = caller_keywords
    /\ identified_groups' = <<>>
    /\ typo_candidates' = <<>>
    /\ selected_keyword' = <<>> /\ current_group' = <<>>
    /\ current_prefix' = NonePrefix /\ kw_idx' = 0
    /\ prefix_pc' = "while"
    /\ UNCHANGED <<caller_keywords, rules_vars, split_vars, engine_vars>>

\* split_by_common_prefixes(kws, min_prefix_length=min)
Call_split_by_common_prefixes ==
    /\ prefix_pc = "ready"
    /\ \E min \in MinPrefixLengthInputs : Enter("split_by_common_prefixes", min, 0)
    /\ UNCHANGED previous_call

\* estimate_typos(kws, dl_distance_threshold=threshold), which passes its
\* list on to split_by_common_prefixes
Call_estimate_typos ==
    /\ prefix_pc = "ready"
    /\ \E min \in MinPrefixLengthInputs, threshold \in 0..MaxThreshold :
            Enter("estimate_typos", min, threshold)
    /\ UNCHANGED previous_call

\* a second call of split_by_common_prefixes on the same list object, as in
\* test_prefix_splitting_min_pref_len
Call_split_again ==
    /\ prefix_pc = "done" /\ entry = "split_by_common_prefixes"
    /\ previous_call = NoCall
    /\ previous_call' = [made |-> TRUE, arg |-> call_arg,
                         min_prefix_length |-> min_prefix_length,
                         result |-> identified_groups]
    /\ \E min \in MinPrefixLengthInputs : Enter("split_by_common_prefixes", min, 0)

\* the reference keyword read without being removed from the pool
pop_reference_peek ==
    /\ prefix_pc = "while" /\ keywords # <<>>
    /\ selected_keyword' = Head(keywords)
    /\ current_group' = <<Head(keywords)>>
    /\ current_prefix' = NonePrefix
    /\ kw_idx' = 1
    /\ prefix_pc' = "for"
    /\ UNCHANGED <<entry, caller_keywords, keywords, aliased, min_prefix_length,
                   dl_distance_threshold, identified_groups, typo_candidates,
                   call_arg, previous_call, rules_vars, split_vars, engine_vars>>

\* while keywords: selected_keyword = keywords.pop(0); ...
\* pop(0) changes the list object keywords is bound to, which in the first
\* iteration is the caller's
PopReference ==
    /\ prefix_pc = "while" /\ keywords # <<>>
    /\ selected_keyword' = Head(keywords)
    /\ keywords' = Tail(keywords)
    /\ caller_keywords' = IF aliased THEN Tail(keywords) ELSE caller_keywords
    /\ current_group' = <<Head(keywords)>>
    /\ current_prefix' = NonePrefix
    /\ kw_idx' = 1
    /\ prefix_pc' = "for"
    /\ UNCHANGED <<entry, aliased, min_prefix_length, dl_distance_threshold,
                   identified_groups, typo_candidates, call_arg, previous_call,
                   rules_vars, split_vars, engine_vars>>

InForLoop == prefix_pc = "for" /\ kw_idx <= Len(keywords)

ForFrame ==
    /\ kw_idx' = kw_idx + 1
    /\ UNCHANGED <<prefix_pc, entry, caller_keywords, keywords, aliased,
                   min_prefix_length, dl_distance_threshold, selected_keyword,
                   identified_groups, typo_candidates, call_arg, previous_call,
                   rules_vars, split_vars, engine_vars>>

\* if current_prefix is None and len(common_prefix) >= min_prefix_length
Examine_first_prefix ==
    /\ InForLoop
    /\ LET kw == keywords[kw_idx]
           common_prefix == CommonPrefix(selected_keyword, kw)
       IN /\ FirstPrefixFound(common_prefix, current_prefix, min_prefix_length)
          /\ current_prefix' = SomePrefix(common_prefix)
          /\ current_group' = Append(current_group, kw)
    /\ ForFrame

\* elif common_prefix == current_prefix
Examine_exact_match ==
    /\ InForLoop
    /\ LET kw == keywords[kw_idx]
           common_prefix == CommonPrefix(selected_keyword, kw)
       IN /\ ExactMatch(common_prefix, current_prefix, min_prefix_length)
          /\ current_group' = Append(current_group, kw)
          /\ UNCHANGED current_prefix
    /\ ForFrame

\* elif current_prefix is not None and common_prefix.startswith(current_prefix)
Examine_longer_prefix ==
    /\ InForLoop
    /\ LET kw == keywords[kw_idx]
           common_prefix == CommonPrefix(selected_keyword, kw)
       IN /\ LongerPrefix(common_prefix, current_prefix, min_prefix_length)
          /\ current_prefix' = SomePrefix(common_prefix)
          /\ current_group' = StartingWith(Append(current_group, kw), common_prefix)
    /\ ForFrame

\* no branch of the if statement is taken
Examine_no_match ==
    /\ InForLoop
    /\ LET kw == keywords[kw_idx]
           common_prefix == CommonPrefix(selected_keyword, kw)
       IN /\ ~FirstPrefixFound(common_prefix, current_prefix, min_prefix_length)
          /\ ~ExactMatch(common_prefix, current_prefix, min_prefix_length)
          /\ ~LongerPrefix(common_prefix, current_prefix, min_prefix_length)
    /\ UNCHANGED <<current_prefix, current_group>>
    /\ ForFrame

\* after the for loop: keywords is bound to a new, filtered list, and the
\* group is stored under its prefix, or under the reference keyword
BindGroup ==
    /\ prefix_pc = "for" /\ kw_idx > Len(keywords)
    /\ keywords' = NotIn(keywords, current_group)
    /\ aliased' = FALSE
    /\ current_prefix' =
            IF current_prefix = NonePrefix THEN SomePrefix(selected_keyword)
            ELSE current_prefix
    /\ identified_groups' =
            DictSet(identified_groups,
                    IF current_prefix = NonePrefix THEN selected_keyword
                    ELSE current_prefix.prefix,
                    current_group)
    /\ prefix_pc' = "while"
    /\ UNCHANGED <<entry, caller_keywords, min_prefix_length, dl_distance_threshold,
                   selected_keyword, current_group, kw_idx, typo_candidates,
                   call_arg, previous_call, rules_vars, split_vars, engine_vars>>

\* return identified_groups, to the caller of split_by_common_prefixes
Return_split_by_common_prefixes ==
    /\ prefix_pc = "while" /\ keywords = <<>>
    /\ entry = "split_by_common_prefixes"
    /\ prefix_pc' = "done"
    /\ UNCHANGED <<entry, caller_keywords, keywords, aliased, min_prefix_length,
                   dl_distance_threshold, selected_keyword, current_group,
                   current_prefix, kw_idx, identified_groups, typo_candidates,
                   call_arg, previous_call, rules_vars, split_vars, engine_vars>>

\* return identified_groups, to estimate_typos, which runs the singleton
\* heuristic on it and returns the candidates
Return_estimate_typos ==
    /\ prefix_pc = "while" /\ keywords = <<>>
    /\ entry = "estimate_typos"
    /\ typo_candidates' = singleton_heuristic(identified_groups, dl_distance_threshold)
    /\ prefix_pc' = "done"
    /\ UNCHANGED <<entry, caller_keywords, keywords, aliased, min_prefix_length,
                   dl_distance_threshold, selected_keyword, current_group,
                   current_prefix, kw_idx, identified_groups, call_arg,
                   previous_call, rules_vars, split_vars, engine_vars>>

NextPrefix ==
    \/ Call_split_by_common_prefixes
    \/ Call_estimate_typos
    \/ Call_split_again
    \/ PopReference
    \/ Examine_first_prefix
    \/ Examine_exact_match
    \/ Examine_longer_prefix
    \/ Examine_no_match
    \/ BindGroup
    \/ Return_split_by_common_prefixes
    \/ Return_estimate_typos

SpecPrefix == InitPrefix /\ [][NextPrefix]_vars

\* a statement of the while loop of split_by_common_prefixes
GroupingLoopStep ==
    \/ PopReference
    \/ Examine_first_prefix
    \/ Examine_exact_match
    \/ Examine_longer_prefix
    \/ Examine_no_match
    \/ BindGroup

\* the interpreter runs the next statement of the loop as long as there is one
SpecPrefixFair == SpecPrefix /\ WF_vars(GroupingLoopStep)

\* a configuration is built and a schema, read from YAML or from TSV, is
\* validated under it
InitLint ==
    /\ RulesIdle /\ SplitIdle /\ PrefixIdle /\ RunIdle
    /\ lint_pc = "ready"
    /\ file_content \in SchemaInputs \cup ReorderedSchemaInputs \cup NestedSchemaInputs
    /\ file_type \in {"yaml", "tsv"}
    /\ file_type = "tsv" => IsTabular(file_content)
    /\ cli_args \in CliInputs
    /\ lint_conf = Returned(<<>>) /\ document = PyNone /\ validation = NoResult

Call_from_cli_args ==
    /\ lint_pc = "ready"
    /\ lint_conf' = from_cli_args(cli_args.error, cli_args.warn, cli_args.skip)
    /\ lint_pc' = IF lint_conf'.raised THEN "aborted" ELSE "configured"
    /\ UNCHANGED <<file_content, file_type, cli_args, document, validation,
                   rules_vars, split_vars, prefix_vars, run_vars>>

\* conf = LintConfig(), then conf.error(lint), conf.warning(lint) or
\* conf.skip(lint) for one rule of the catalog, by a caller that has no
\* identifier lists
Call_add_override ==
    /\ lint_pc = "ready"
    /\ cli_args = [error |-> <<>>, warn |-> <<>>, skip |-> <<>>]
    /\ \E lint \in {LINT_NAMES[id] : id \in DOMAIN LINT_NAMES},
          override \in {error_override, warning_override, skip_override} :
            lint_conf' = Returned(DictSet(<<>>, lint, override))
    /\ lint_pc' = "overridden"
    /\ UNCHANGED <<file_content, file_type, cli_args, document, validation,
                   rules_vars, split_vars, prefix_vars, run_vars>>

Call_to_md_block_types ==
    /\ lint_pc \in {"configured", "overridden"} /\ file_type = "yaml"
    /\ document' = to_md_block_types(file_content)
    /\ lint_pc' = "read"
    /\ UNCHANGED <<file_content, file_type, cli_args, lint_conf, validation,
                   rules_vars, split_vars, prefix_vars, run_vars>>

Call_read_tsv ==
    /\ lint_pc \in {"configured", "overridden"} /\ file_type = "tsv"
    /\ document' = read_tsv(TsvRows(file_content), <<>>).data
    /\ lint_pc' = "read"
    /\ UNCHANGED <<file_content, file_type, cli_args, lint_conf, validation,
                   rules_vars, split_vars, prefix_vars, run_vars>>

\* validation.validate_yaml(data, lint_conf, verbose), the call of read_yaml
\* and of check and convert on the Document of a file
Call_validate_yaml ==
    /\ lint_pc = "read"
    /\ validation' = call_validate_yaml(<<document, lint_conf.value, 0>>)
    /\ lint_pc' = "done"
    /\ UNCHANGED <<file_content, file_type, cli_args, lint_conf, document,
                   rules_vars, split_vars, prefix_vars, run_vars>>

\* validation.validate_yaml(data, verbose), a call with the two arguments
\* the function takes
Call_validate_yaml_data_verbose ==
    /\ lint_pc = "read"
    /\ validation' = call_validate_yaml(<<document, 0>>)
    /\ lint_pc' = "validated"
    /\ UNCHANGED <<file_content, file_type, cli_args, lint_conf, document,
                   rules_vars, split_vars, prefix_vars, run_vars>>

NextLint ==
    \/ Call_from_cli_args
    \/ Call_add_override
    \/ Call_to_md_block_types
    \/ Call_read_tsv
    \/ Call_validate_yaml
    \/ Call_validate_yaml_data_verbose

SpecLint == InitLint /\ [][NextLint]_vars

\* a run of check or convert from the command line, or a call of one of
\* the functions of __main__.py, yaml_input.py or output.py with its arguments
RunArgs(warn, skip, warn_ec, files, args) ==
    [warn |-> warn, skip |-> skip, warn_ec |-> warn_ec, files |-> files, args |-> args]

InitRun ==
    /\ RulesIdle /\ SplitIdle /\ PrefixIdle /\ LintIdle
    /\ run_pc = "start"
    /\ command \in {"check", "convert", "guess_input_type", "read_yaml",
                    "__contains__", "return_violations", "add", "extend",
                    "extend_for", "write_metadata_block"}
    /\ \/ /\ command \in {"check", "convert"}
          /\ \E cli \in RunCliInputs, ec \in WarnEcInputs,
                fs \in SeqsUpTo(FileInputs, MaxFiles) :
                /\ command = "convert" => Len(fs) = 1
                /\ run_args = RunArgs(cli.warn, cli.skip, ec, fs, <<>>)
          /\ lint_violations = <<>>
       \/ /\ command = "guess_input_type"
          /\ \E f \in FileInputs : run_args = RunArgs(<<>>, <<>>, 0, <<f>>, <<>>)
          /\ lint_violations = <<>>
       \/ /\ command = "read_yaml"
          /\ \E f \in FileInputs :
                /\ guess_input_type(f.path).input_type = "yaml"
                /\ run_args = RunArgs(<<>>, <<>>, 0, <<f>>, <<>>)
          /\ lint_violations = <<>>
       \/ /\ command = "__contains__"
          /\ \E f \in FileInputs : run_args = RunArgs(<<>>, <<>>, 0, <<f>>, <<>>)
          /\ lint_violations \in ViolationsByFileInputs
       \/ /\ command = "return_violations"
          /\ \E ec \in WarnEcInputs : run_args = RunArgs(<<>>, <<>>, ec, <<>>, <<>>)
          /\ lint_violations \in ViolationsByFileInputs
       \/ /\ command = "add"
          /\ \E v \in ViolationInputs : run_args = RunArgs(<<>>, <<>>, 0, <<>>, <<v[1], v[2]>>)
          /\ lint_violations \in ViolationsByFileInputs
       \/ /\ command = "extend"
          /\ \E l \in SeqsUpTo(ViolationInputs, MaxFiles) :
                run_args = RunArgs(<<>>, <<>>, 0, <<>>, <<l>>)
          /\ lint_violations \in {<<>>} \cup
                {ViolationsByFileOf(<<p>>) : p \in RecordedPathInputs \X ViolationListInputs}
       \/ /\ command = "extend_for"
          /\ \E path \in RecordedPathInputs, l \in ViolationListInputs \cup {<<>>} :
                run_args = RunArgs(<<>>, <<>>, 0, <<>>, <<path, l>>)
          /\ lint_violations \in ViolationsByFileInputs
       \/ /\ command = "write_metadata_block"
          /\ \E data \in WriteDataInputs, longest_line \in LongestLineInputs :
                run_args = RunArgs(<<>>, <<>>, 0, <<>>, <<data, longest_line>>)
          /\ lint_violations = <<>>
    /\ run_conf = Returned(<<>>) /\ file_idx = 0
    /\ files_read = {} /\ files_validated = {} /\ output_written = FALSE
    /\ printed = <<>> /\ returned = PyNone /\ out_file = <<>> /\ exit_code = None

\* an uncaught exception, or sys.exit(1): the process ends with status 1
Abort ==
    /\ run_pc' = "aborted"
    /\ exit_code' = 1

\* check up to lint_conf = LintConfig.from_cli_args(warn, skip): the call
\* has two arguments and raises, which ends the run before the test for no
\* files and before any file is looked at
Configure ==
    /\ run_pc = "start" /\ command = "check"
    /\ run_conf' = call_from_cli_args(<<run_args.warn, run_args.skip>>)
    /\ Abort
    /\ UNCHANGED <<command, run_args, file_idx, lint_violations, files_read,
                   files_validated, output_written, printed, returned, out_file,
                   rules_vars, split_vars, prefix_vars, lint_vars>>

\* yml2block convert FILE_PATH: the command from its first line to the
\* exception or the exit that ends it
Call_convert ==
    /\ run_pc = "start" /\ command = "convert"
    /\ \E ended \in {convert(run_args.files[1], run_args.warn, run_args.skip,
                             run_args.warn_ec)} :
          /\ run_conf' = ended.run_conf
          /\ lint_violations' = ended.lint_violations
          /\ files_read' = ended.files_read
          /\ output_written' = ended.output_written
          /\ out_file' = ended.out_file
          /\ printed' = ended.printed
          /\ returned' = ended.returned
          /\ run_pc' = ended.run_pc
          /\ exit_code' = ended.exit_code
    /\ UNCHANGED <<command, run_args, file_idx, files_validated,
                   rules_vars, split_vars, prefix_vars, lint_vars>>

\* guess_input_type(input_path)
Call_guess_input_type ==
    /\ run_pc = "start" /\ command = "guess_input_type"
    /\ returned' = guess_input_type(run_args.files[1].path)
    /\ run_pc' = "returned"
    /\ UNCHANGED <<command, run_args, run_conf, file_idx, lint_violations, files_read,
                   files_validated, output_written, printed, out_file, exit_code,
                   rules_vars, split_vars, prefix_vars, lint_vars>>

\* read_yaml(file_path, lint_conf, verbose) with the configuration
\* LintConfig(), which has no override, and verbose 0: the file is opened;
\* validate_yaml returns for no file, so no file counts as validated
Call_read_yaml ==
    /\ run_pc = "start" /\ command = "read_yaml"
    /\ LET file == run_args.files[1]
           r == read_yaml(file.content, run_conf.value, 0)
       IN /\ returned' = r
          /\ files_read' = {file.path}
          /\ files_validated' = IF file.content.duplicate_key \/ r.raised THEN {}
                                ELSE {file.path}
          /\ IF r.raised THEN Abort ELSE run_pc' = "returned" /\ UNCHANGED exit_code
    /\ UNCHANGED <<command, run_args, run_conf, file_idx, lint_violations,
                   output_written, printed, out_file,
                   rules_vars, split_vars, prefix_vars, lint_vars>>

\* file_path in lint_violations, the test of convert before it writes the
\* output (if input_type == "yaml" and file_path not in lint_violations)
Call_contains ==
    /\ run_pc = "start" /\ command = "__contains__"
    /\ returned' = Contains(lint_violations, run_args.files[1].path)
    /\ run_pc' = "returned"
    /\ UNCHANGED <<command, run_args, run_conf, file_idx, lint_violations, files_read,
                   files_validated, output_written, printed, out_file, exit_code,
                   rules_vars, split_vars, prefix_vars, lint_vars>>

\* return_violations(lint_violations, warn_ec, verbose)
Call_return_violations ==
    /\ run_pc = "start" /\ command = "return_violations"
    /\ printed' = printed_headings(lint_violations)
    /\ exit_code' = return_violations(lint_violations, run_args.warn_ec)
    /\ run_pc' = "exited"
    /\ UNCHANGED <<command, run_args, run_conf, file_idx, lint_violations, files_read,
                   files_validated, output_written, returned, out_file,
                   rules_vars, split_vars, prefix_vars, lint_vars>>

\* a method of ViolationsByFile has returned None
MethodReturns ==
    /\ returned' = PyNone
    /\ run_pc' = "returned"
    /\ UNCHANGED <<command, run_args, run_conf, file_idx, files_read,
                   files_validated, output_written, printed, out_file, exit_code,
                   rules_vars, split_vars, prefix_vars, lint_vars>>

\* lint_violations.add(file_path, violation)
Call_add ==
    /\ run_pc = "start" /\ command = "add"
    /\ lint_violations' = add(lint_violations, run_args.args[1], run_args.args[2])
    /\ MethodReturns

\* lint_violations.extend(violation_list)
Call_extend ==
    /\ run_pc = "start" /\ command = "extend"
    /\ lint_violations' = extend(lint_violations, run_args.args[1])
    /\ MethodReturns

\* lint_violations.extend_for(file_path, violation_list)
Call_extend_for ==
    /\ run_pc = "start" /\ command = "extend_for"
    /\ lint_violations' = extend_for(lint_violations, run_args.args[1], run_args.args[2])
    /\ MethodReturns

\* output.write_metadata_block(data, outfile, longest_row, verbose): the
\* output file exists once it is opened, whatever happens afterwards
Call_write_metadata_block ==
    /\ run_pc = "start" /\ command = "write_metadata_block"
    /\ LET w == write_metadata_block(run_args.args[1], run_args.args[2])
       IN /\ output_written' = TRUE
          /\ out_file' = w.out_file
          /\ returned' = w.outcome
          /\ IF w.outcome.raised THEN Abort
             ELSE run_pc' = "returned" /\ UNCHANGED exit_code
    /\ UNCHANGED <<command, run_args, run_conf, file_idx, lint_violations, files_read,
                   files_validated, printed,
                   rules_vars, split_vars, prefix_vars, lint_vars>>

NextRun ==
    \/ Configure
    \/ Call_convert
    \/ Call_guess_input_type
    \/ Call_read_yaml
    \/ Call_contains
    \/ Call_return_violations
    \/ Call_add
    \/ Call_extend
    \/ Call_extend_for
    \/ Call_write_metadata_block

SpecRun == InitRun /\ [][NextRun]_vars

Init == InitRules \/ InitSplit \/ InitPrefix \/ InitLint \/ InitRun
Next == NextRules \/ NextSplit \/ NextPrefix \/ NextLint \/ NextRun
Spec == Init /\ [][Next]_vars

-----------------------------------------------------------------------------
(* Properties of the lint rules *)

RuleDone(r) == rules_pc = "done" /\ rule = r

\* C1: keywords_valid returns no violation when the set of top-level keywords
\* is {metadataBlock, datasetField, controlledVocabulary} or {metadataBlock,
\* datasetField}, and exactly one violation, of rule 'keywords_valid', for
\* every other keyword set (the empty set, a set missing a required keyword,
\* a set holding an unknown keyword).
C1_KeywordsValid ==
    RuleDone("keywords_valid") =>
        LET ks == {keywords_arg[i] : i \in 1..Len(keywords_arg)}
            v == rule_result.value
        IN /\ ~rule_result.raised
           /\ IF \/ ks = {"metadataBlock", "datasetField", "controlledVocabulary"}
                 \/ ks = {"metadataBlock", "datasetField"}
              THEN v = <<>>
              ELSE Len(v) = 1 /\ v[1].rule = "keywords_valid" /\ v[1].level = level

\* C1, its case: a keyword list with a misspelt keyword beside the two
\* required ones got its one violation
C1_Witness ==
    /\ RuleDone("keywords_valid")
    /\ keywords_arg = <<"metadataBlock", "datasetField", "dataseField">>
    /\ Len(rule_result.value) = 1

\* the records of the chunk that carry the key
Carrying(key) == {i \in 1..Len(yaml_chunk) : HasKey(yaml_chunk[i], key)}

\* the name values carried by more than one record of the chunk
DuplicatedNames ==
    {yaml_chunk[i].fields["name"].value : i \in
        {i \in Carrying("name") : \E j \in Carrying("name") :
            j # i /\ yaml_chunk[j].fields["name"].value =
                     yaml_chunk[i].fields["name"].value}}

\* C2: for every record list of a metadataBlock or datasetField section,
\* unique_names returns exactly one violation per distinct name value that
\* occurs in more than one record, whose message names the line of every
\* record carrying the name, and no violation when all names are distinct.
C2_UniqueNamesEveryRecordList ==
    (RuleDone("unique_names") /\ tsv_keyword \in {"metadataBlock", "datasetField"}) =>
        /\ ~rule_result.raised
        /\ LET v == rule_result.value IN
           /\ Len(v) = Cardinality(DuplicatedNames)
           /\ \A n \in DuplicatedNames :
                \E k \in 1..Len(v) :
                    /\ v[k].rule = "unique_names"
                    /\ v[k].message.name = n
                    /\ {v[k].message.occs[m] : m \in 1..Len(v[k].message.occs)} =
                       {yaml_chunk[i].line : i \in
                            {i \in Carrying("name") :
                                yaml_chunk[i].fields["name"].value = n}}

\* What unique_names does: the statement of C2 holds of every record list in
\* which each record carries a name, and the call raises KeyError as soon as
\* one record lacks it.
UniqueNamesBehaviour ==
    (RuleDone("unique_names") /\ tsv_keyword \in {"metadataBlock", "datasetField"}) =>
        IF Carrying("name") = 1..Len(yaml_chunk)
        THEN C2_UniqueNamesEveryRecordList
        ELSE rule_result.raised /\ rule_result.exc = "KeyError"

\* the (title, parent) pairs carried by more than one record of the chunk
DuplicatedTitlePairs ==
    LET both == Carrying("title") \cap Carrying("parent")
        pair(i) == <<yaml_chunk[i].fields["title"].value,
                     yaml_chunk[i].fields["parent"].value>>
    IN {pair(i) : i \in {i \in both : \E j \in both : j # i /\ pair(j) = pair(i)}}

\* C3: for a datasetField record list, unique_titles uses the pair (title,
\* parent) as uniqueness key: records with the same title and different
\* parents yield no violation, records with the same title and the same
\* parent yield exactly one violation for that pair.
C3_UniqueTitlesEveryRecordList ==
    (RuleDone("unique_titles") /\ tsv_keyword = "datasetField") =>
        /\ ~rule_result.raised
        /\ LET v == rule_result.value IN
           /\ Len(v) = Cardinality(DuplicatedTitlePairs)
           /\ \A tp \in DuplicatedTitlePairs :
                Cardinality({k \in 1..Len(v) :
                    v[k].rule = "unique_titles" /\ v[k].message.title = tp}) = 1

\* What unique_titles does: the statement of C3 holds of every record list in
\* which each record carries a title and a parent, and the call raises
\* KeyError as soon as one record lacks either.
UniqueTitlesBehaviour ==
    (RuleDone("unique_titles") /\ tsv_keyword = "datasetField") =>
        IF Carrying("title") \cap Carrying("parent") = 1..Len(yaml_chunk)
        THEN C3_UniqueTitlesEveryRecordList
        ELSE rule_result.raised /\ rule_result.exc = "KeyError"

-----------------------------------------------------------------------------
(* Properties of the section splitter *)

\* the 0-based indices of the lines of the file that start with '#'
Markers == {i - 1 : i \in {i \in 1..Len(full_file) :
                        full_file[i] # <<>> /\ Head(full_file[i]) = "#"}}

\* the k-th smallest marker index, k = 0, 1, 2, ...
Marker(k) == CHOOSE i \in Markers : Cardinality({j \in Markers : j < i}) = k

\* lines a .. b-1 of the file (0-based)
Lines(a, b) == [n \in 1..(b - a) |-> full_file[a + n]]

SplitDone(n) == split_pc = "done" /\ Cardinality(Markers) = n

\* the three slices are [I0,I1), [I1,I2), [I2,end), each beginning with its
\* marker line, and no violation is returned
ThreeSlices ==
    /\ split_blocks = << PyList(Lines(Marker(0), Marker(1))),
                         PyList(Lines(Marker(1), Marker(2))),
                         PyList(Lines(Marker(2), Len(full_file))) >>
    /\ \A k \in 1..3 : /\ split_blocks[k].items # <<>>
                       /\ split_blocks[k].items[1] = full_file[Marker(k - 1) + 1]
    /\ bp_violations = <<>>

Concatenation ==
    split_blocks[1].items \o split_blocks[2].items \o split_blocks[3].items

\* C4 as stated: with exactly 3 marker lines the three slices are [I0,I1),
\* [I1,I2), [I2,end), each beginning with its marker line, and their
\* concatenation reproduces the whole input line sequence.
C4_ConcatenationIsWholeInput ==
    SplitDone(3) => (ThreeSlices /\ Concatenation = full_file)

\* C4, amended: with exactly 3 marker lines the three slices are [I0,I1),
\* [I1,I2), [I2,end), each beginning with its marker line, and their
\* concatenation reproduces the input from the first marker line on: the
\* lines before the first marker are in no slice, so the whole input is
\* reproduced exactly when its first line is a marker line.
C4_ConcatenationFromFirstMarker ==
    SplitDone(3) =>
        /\ ThreeSlices
        /\ Concatenation = Lines(Marker(0), Len(full_file))
        /\ (Concatenation = full_file) <=> (Marker(0) = 0)

\* C4, its case: a file with exactly 3 marker lines, the first of them not
\* the first line, has been split
C4_Witness ==
    SplitDone(3) /\ Marker(0) > 0 /\ Len(split_blocks) = 3

\* C5: with exactly 2 marker lines the result is the slices [I0,I1) and
\* [I1,end) followed by None (not an empty list) as third element, and no
\* violation.
C5_TwoMarkers ==
    SplitDone(2) =>
        /\ split_blocks = << PyList(Lines(Marker(0), Marker(1))),
                             PyList(Lines(Marker(1), Len(full_file))),
                             PyNone >>
        /\ split_blocks[3] # PyList(<<>>)
        /\ bp_violations = <<>>

\* C5, its case: a file with exactly 2 marker lines, with lines before the
\* first of them and data rows after each, has been split
C5_Witness ==
    /\ SplitDone(2) /\ Marker(0) > 0
    /\ Len(split_blocks[1].items) > 1 /\ Len(split_blocks[2].items) > 1
    /\ split_blocks[3] = PyNone

\* C6: with 0, 1, or 4 or more marker lines the input line sequence itself is
\* returned as the split value, with exactly one violation, of level WARNING
\* and rule 'identify_break_points'.
C6_PassThrough ==
    (split_pc = "done" /\ Cardinality(Markers) \notin {2, 3}) =>
        /\ split_blocks = full_file
        /\ Len(bp_violations) = 1
        /\ bp_violations[1].level = WARNING
        /\ bp_violations[1].rule = "identify_break_points"

\* C6, its case: a file with 4 marker lines has been passed through
C6_Witness ==
    SplitDone(4) /\ split_blocks = full_file /\ Len(bp_violations) = 1

-----------------------------------------------------------------------------
(* Properties of the prefix clusterer and of the typo heuristic *)

\* the group keys the unit tests expect
W_Foo == <<"F", "o", "o">>
W_FoobarAttr == <<"F", "o", "o", "b", "a", "r", "A", "t", "t", "r">>

Prefixes(a) == {SubSeq(a, 1, n) : n \in 0..Len(a)}

\* the longest string that is a prefix of both a and b
LongestCommonPrefix(a, b) ==
    CHOOSE p \in Prefixes(a) \cap Prefixes(b) :
        \A q \in Prefixes(a) \cap Prefixes(b) : Len(q) <= Len(p)

\* split_by_common_prefixes has returned identified_groups for the list call_arg
SplitReturned == prefix_pc = "done"

\* C7: on a list in which every other keyword's longest common prefix with
\* the first keyword is the same string P, with len(P) >= min_prefix_length,
\* split_by_common_prefixes returns a single group keyed P that holds all
\* keywords in their input order.
C7_OneGroup ==
    (/\ SplitReturned
     /\ Len(call_arg) >= 2
     /\ \A i \in 2..Len(call_arg) :
            LongestCommonPrefix(call_arg[1], call_arg[i]) =
            LongestCommonPrefix(call_arg[1], call_arg[2])
     /\ Len(LongestCommonPrefix(call_arg[1], call_arg[2])) >= min_prefix_length)
    => identified_groups =
          << [key |-> LongestCommonPrefix(call_arg[1], call_arg[2]),
              entries |-> call_arg] >>

\* C7, its case: ['fooBarBaz', 'fooBarTest', 'fooBar'] with minimum 3 gave
\* the one group 'fooBar'
C7_Witness ==
    /\ SplitReturned /\ call_arg = KwsOneGroup /\ min_prefix_length = 3
    /\ identified_groups = << [key |-> W_fooBar, entries |-> KwsOneGroup] >>

\* C8: if no two keywords of the input share a common prefix of at least
\* min_prefix_length characters, split_by_common_prefixes returns one
\* singleton group per keyword, each keyed by the keyword itself.
C8_Singletons ==
    (/\ SplitReturned
     /\ \A i, j \in 1..Len(call_arg) :
            i < j => Len(LongestCommonPrefix(call_arg[i], call_arg[j])) < min_prefix_length)
    => /\ \A i \in 1..Len(call_arg) :
            Cardinality({g \in 1..Len(identified_groups) :
                            identified_groups[g].key = call_arg[i]}) = 1
       /\ \A g \in 1..Len(identified_groups) :
            /\ \E i \in 1..Len(call_arg) : identified_groups[g].key = call_arg[i]
            /\ identified_groups[g].entries = <<identified_groups[g].key>>

\* C8, its case: ['1FooBar', '2FooBar', '3FooBar'] with minimum 3 gave three
\* singleton groups
C8_Witness ==
    /\ SplitReturned /\ call_arg = KwsNoPrefix /\ min_prefix_length = 3
    /\ Len(identified_groups) = 3
    /\ \A g \in 1..3 : identified_groups[g].entries = <<KwsNoPrefix[g]>>

\* C9: split_by_common_prefixes leaves the caller's keyword list unchanged:
\* when it returns, the caller's list holds what it held at the call.
C9_CallerListUnchanged ==
    SplitReturned => caller_keywords = call_arg

\* C9, its example: called on the same list object ['Foo1', 'Foo2', 'Foo3']
\* with min_prefix_length 4 and then 3, the function returns three singleton
\* groups and then one group keyed 'Foo' that holds all three keywords.
C9_SameListTwice ==
    (/\ SplitReturned /\ previous_call # NoCall
     /\ previous_call.arg = KwsMinPrefLen
     /\ previous_call.min_prefix_length = 4 /\ min_prefix_length = 3)
    => /\ previous_call.result =
            << [key |-> W_Foo1, entries |-> <<W_Foo1>>],
               [key |-> W_Foo2, entries |-> <<W_Foo2>>],
               [key |-> W_Foo3, entries |-> <<W_Foo3>>] >>
       /\ identified_groups = << [key |-> W_Foo, entries |-> KwsMinPrefLen] >>

\* the (singleton key, candidate key) pairs of typo_candidates
ReportedPairs == {<<typo_candidates[c][1].key, typo_candidates[c][2].key>> :
                    c \in 1..Len(typo_candidates)}

GroupKeys == {identified_groups[g].key : g \in 1..Len(identified_groups)}
GroupOf(k) == identified_groups[CHOOSE g \in 1..Len(identified_groups) :
                                    identified_groups[g].key = k].entries

\* C10: estimate_typos reports the pair (group s, group p) exactly when s is
\* a group with one member, p is another group key with len(p) <= len(s), and
\* the Damerau-Levenshtein distance between s truncated to len(p) and p is
\* <= dl_distance_threshold; so 'FoobraAttrNrVier' (1 edit) is paired with
\* 'FoobarAttr' from threshold 1 on, 'FXobraAttrNrVier' (2 edits) from
\* threshold 2 on.
C10_TypoCandidates ==
    (SplitReturned /\ entry = "estimate_typos") =>
        /\ ReportedPairs =
              {sp \in GroupKeys \X GroupKeys :
                  /\ Len(GroupOf(sp[1])) = 1
                  /\ sp[2] # sp[1]
                  /\ Len(sp[2]) <= Len(sp[1])
                  /\ dl_dist(SubSeq(sp[1], 1, Len(sp[2])), sp[2]) <= dl_distance_threshold}
        /\ Len(typo_candidates) = Cardinality(ReportedPairs)
        /\ \A c \in 1..Len(typo_candidates) :
              /\ typo_candidates[c][1].entries = GroupOf(typo_candidates[c][1].key)
              /\ typo_candidates[c][2].entries = GroupOf(typo_candidates[c][2].key)
        /\ (call_arg = KwsTypoDistance1 /\ min_prefix_length = 3) =>
              (<<W_FoobraAttrNrVier, W_FoobarAttr>> \in ReportedPairs
                  <=> dl_distance_threshold >= 1)
        /\ (call_arg = KwsTypoDistance2 /\ min_prefix_length = 3) =>
              (<<W_FXobraAttrNrVier, W_FoobarAttr>> \in ReportedPairs
                  <=> dl_distance_threshold >= 2)

\* C10, its case: the 2-edit variant 'FXobraAttrNrVier' was reported, alone,
\* at threshold 2
C10_Witness ==
    /\ SplitReturned /\ entry = "estimate_typos"
    /\ call_arg = KwsTypoDistance2 /\ min_prefix_length = 3
    /\ dl_distance_threshold = 2
    /\ ReportedPairs = {<<W_FXobraAttrNrVier, W_FoobarAttr>>}

-----------------------------------------------------------------------------
(* Properties of the configuration, the readers and validation (SpecLint) *)

\* the Document the reader of the file type builds from the file
DocumentRead ==
    IF file_type = "yaml" THEN to_md_block_types(file_content)
    ELSE read_tsv(TsvRows(file_content), <<>>).data

\* the rules of the catalog
RuleNames == {LINT_NAMES[id] : id \in DOMAIN LINT_NAMES}

\* the rules an identifier list names
NamedIn(identifiers) ==
    {LINT_NAMES[identifiers[i]] :
        i \in {j \in 1..Len(identifiers) : identifiers[j] \in DOMAIN LINT_NAMES}}

\* every identifier of the command line is in the catalog, and no rule is
\* named in two lists
CatalogIdentifiers ==
    /\ \A l \in {cli_args.error, cli_args.warn, cli_args.skip} :
          Range(l) \subseteq DOMAIN LINT_NAMES
    /\ NamedIn(cli_args.error) \cap NamedIn(cli_args.warn) = {}
    /\ NamedIn(cli_args.error) \cap NamedIn(cli_args.skip) = {}
    /\ NamedIn(cli_args.warn) \cap NamedIn(cli_args.skip) = {}

\* the rules of the catalog by what they are called on: the top-level
\* keywords, the value of a section, a record; each stage in the order of
\* the catalog
TopLevelStage == <<"keywords_valid", "keywords_unique">>
BlockStage == <<"block_is_list", "unique_names", "unique_titles">>
RecordStage == <<"required_keys_present", "keys_valid", "no_substructures",
                 "no_trailing_spaces", "nested_compound_metadata",
                 "nested_compound_metadata_controlled_vocab">>

\* the <<argument, keyword>> pairs of the file on which a rule runs
ArgumentsOf(lint) ==
    LET sections == DocumentRead.sections
        lists == {s \in 1..Len(sections) : sections[s].entries.type = "MDBlockList"}
    IN IF lint \in Range(TopLevelStage) THEN {<<DictKeys(sections), "">>}
       ELSE IF lint \in Range(BlockStage)
       THEN {<<sections[s].entries, sections[s].key>> : s \in 1..Len(sections)}
       ELSE UNION {{<<sections[s].entries.items[i], sections[s].key>> :
                      i \in 1..Len(sections[s].entries.items)} : s \in lists}

\* the outcome of a rule with the level of every violation replaced
AtLevel(outcome, lvl) ==
    IF outcome.raised THEN outcome
    ELSE Returned([i \in 1..Len(outcome.value) |-> [outcome.value[i] EXCEPT !.level = lvl]])

\* what get gives for a rule is what the lists of the command line ask for
ResolvesAsConfigured(lint) ==
    \A p \in ArgumentsOf(lint) :
        LET baseline == Lint(lint, p[1], p[2], DefaultLevel(lint))
        IN get(lint_conf.value, lint, p[1], p[2]) =
              IF lint \in NamedIn(cli_args.error) THEN AtLevel(baseline, ERROR)
              ELSE IF lint \in NamedIn(cli_args.warn) THEN AtLevel(baseline, WARNING)
              ELSE IF lint \in NamedIn(cli_args.skip) THEN Returned(<<>>)
              ELSE baseline

\* C12: a configuration built by from_cli_args from error, warn and skip
\* lists of catalog identifiers resolves through get: a rule named in error
\* to the baseline violations at level ERROR, a rule named in warn to the
\* baseline violations at level WARNING, a rule named in skip to a rule that
\* returns the empty list, any other rule to the baseline rule.
C12_OverridesResolve ==
    (lint_pc \in {"configured", "aborted"} /\ CatalogIdentifiers) =>
        /\ ~lint_conf.raised
        /\ \A lint \in RuleNames : ResolvesAsConfigured(lint)

\* the same for the configurations without a warn list, the ones
\* from_cli_args builds
C12_ErrorAndSkipResolve ==
    (lint_pc \in {"configured", "aborted"} /\ CatalogIdentifiers /\ cli_args.warn = <<>>) =>
        /\ ~lint_conf.raised
        /\ \A lint \in RuleNames : ResolvesAsConfigured(lint)

\* the records of the Document read: <<section keyword, record>> pairs
RecordsRead ==
    LET sections == DocumentRead.sections
    IN UNION {{<<sections[s].key, sections[s].entries.items[i]>> :
                 i \in 1..Len(sections[s].entries.items)} :
              s \in {t \in 1..Len(sections) : sections[t].entries.type = "MDBlockList"}}

\* the number of fields of a record
FieldCount(record) == Cardinality(DOMAIN record.fields)

\* the columns a record takes in its block
Columns(p) == IF p[1] = "metadataBlock" THEN FieldCount(p[2]) ELSE FieldCount(p[2]) + 1

\* validate_yaml has been called, as the program calls it or with the two
\* arguments it takes
ValidationCalled == lint_pc \in {"done", "validated"}

\* C14: the layout metric validate_yaml returns is the maximum, over all
\* records of all sections, of the field count of a metadataBlock record and
\* of the field count plus one of a datasetField or controlledVocabulary
\* record, and 0 for a document without records; so for a valid document
\* whose only record is a metadataBlock record it is the field count of
\* that record.
C14_LayoutMetric ==
    ValidationCalled =>
        /\ ~validation.raised
        /\ \A p \in RecordsRead : validation.value.longest_row >= Columns(p)
        /\ IF RecordsRead = {} THEN validation.value.longest_row = 0
           ELSE \E p \in RecordsRead : validation.value.longest_row = Columns(p)
        /\ \A p \in RecordsRead :
              (validation.value.violations = <<>> /\ RecordsRead = {p}
                  /\ p[1] = "metadataBlock")
                 => validation.value.longest_row = FieldCount(p[2])

\* no call of validate_yaml returns a metric
C14_NoMetricReturned == ValidationCalled => "value" \notin DOMAIN validation

\* the minimal valid document, one metadataBlock record with its two required
\* fields, read from YAML and given to validate_yaml as read_yaml gives it
C14_MinimalDocumentRaises ==
    /\ lint_pc = "done" /\ file_type = "yaml" /\ lint_conf.value = <<>>
    /\ Cardinality(RecordsRead) = 1
    /\ \A p \in RecordsRead : p[1] = "metadataBlock" /\ FieldCount(p[2]) = 2
    /\ validation.raised /\ validation.exc = "TypeError"

\* C16: validate_yaml returns a (layout metric, violation list) value and
\* never raises, for every Document: a record without 'name', a datasetField
\* record without 'title', 'parent', 'allowmultiples' or
\* 'allowControlledVocabulary', and a section whose value is not a list are
\* reported as violations.
C16_ValidationNeverRaises == ValidationCalled => ~validation.raised

\* the call of the readers and commands, with three arguments, raises
\* TypeError for every Document, and the call with the two arguments of the
\* function raises AttributeError for the first rule it looks up
C16_ValidationAlwaysRaises ==
    /\ lint_pc = "done" =>
          validation = Raised("TypeError",
              "validate_yaml() takes 2 positional arguments but 3 were given")
    /\ lint_pc = "validated" =>
          validation = Raised("AttributeError", "top_level_keywords_valid")

\* the outcomes of the rules of the catalog, each called at its default level
\* on every argument the file gives it
RuleOutcomes ==
    UNION {{Lint(lint, p[1], p[2], DefaultLevel(lint)) : p \in ArgumentsOf(lint)} :
             lint \in RuleNames}

\* the Document holds one of the defects of the claim: a section that is not
\* a list, a record without 'name' (metadataBlock, datasetField) or a
\* datasetField record without 'title', 'parent', 'allowmultiples' or
\* 'allowControlledVocabulary'
HoldsDefect ==
    \/ \E s \in 1..Len(document.sections) :
          document.sections[s].entries.type # "MDBlockList"
    \/ \E p \in RecordsRead :
          \/ p[1] \in {"metadataBlock", "datasetField"} /\ ~HasKey(p[2], "name")
          \/ p[1] = "datasetField" /\
             \E k \in {"title", "parent", "allowmultiples",
                       "allowControlledVocabulary"} : ~HasKey(p[2], k)

\* called by themselves, the rules of rules.py raise only on the Documents
\* with a defect of the claim, and on some of them they do
C16_RulesRaiseOnlyOnDefects ==
    lint_pc = "read" => ((\E o \in RuleOutcomes : o.raised) => HoldsDefect)
C16_RuleRaisesOnDefect ==
    /\ lint_pc = "read" /\ HoldsDefect
    /\ \E o \in RuleOutcomes : o.raised /\ o.exc = "KeyError"

\* the (rule, level) pairs of the violations of an outcome, or the exception
RulesAndLevels(outcome) ==
    IF outcome.raised THEN [raised |-> TRUE, exc |-> outcome.exc]
    ELSE [raised |-> FALSE,
          pairs |-> [i \in 1..Len(outcome.value.violations) |->
                       <<outcome.value.violations[i].rule,
                         outcome.value.violations[i].level>>]]

\* validation of the file content read through the two input paths, as
\* read_yaml and the commands call it
ValidatedFromYaml ==
    call_validate_yaml(<<to_md_block_types(file_content), lint_conf.value, 0>>)
ValidatedFromTsv ==
    call_validate_yaml(<<read_tsv(TsvRows(file_content), <<>>).data, lint_conf.value, 0>>)

\* every section of the file has a record
EverySectionFilled ==
    \A s \in 1..Len(file_content) : file_content[s].entries.records # <<>>

\* the file holds a datasetField record that is a child, allows multiple
\* values and has the given allowControlledVocabulary
HoldsNestedCompound(controlled) ==
    \E s \in 1..Len(file_content) :
        /\ file_content[s].key = "datasetField"
        /\ \E r \in Range(file_content[s].entries.records) :
              /\ <<"parent", "p">> \in Range(r)
              /\ <<"allowmultiples", TrueValue>> \in Range(r)
              /\ <<"allowControlledVocabulary", controlled>> \in Range(r)

Reports(outcome, rule_name, lvl) ==
    /\ ~outcome.raised
    /\ \E i \in 1..Len(outcome.value.violations) :
          /\ outcome.value.violations[i].rule = rule_name
          /\ outcome.value.violations[i].level = lvl

\* C20: a schema with the same content yields the same (rule, level)
\* violations whether it is read from YAML or from TSV; a datasetField record
\* with a parent, allowmultiples true and allowControlledVocabulary false
\* yields the nested_compound_metadata WARNING on both paths, with
\* allowControlledVocabulary true the nested_compound_metadata_controlled_vocab
\* ERROR on both paths.
C20_SameViolationsOnBothPaths ==
    (lint_pc = "done" /\ IsTabular(file_content) /\ EverySectionFilled
        /\ lint_conf.value = <<>>) =>
        /\ RulesAndLevels(ValidatedFromYaml) = RulesAndLevels(ValidatedFromTsv)
        /\ HoldsNestedCompound(FalseValue) =>
              /\ Reports(ValidatedFromYaml, "nested_compound_metadata", WARNING)
              /\ Reports(ValidatedFromTsv, "nested_compound_metadata", WARNING)
        /\ HoldsNestedCompound(TrueValue) =>
              /\ Reports(ValidatedFromYaml,
                         "nested_compound_metadata_controlled_vocab", ERROR)
              /\ Reports(ValidatedFromTsv,
                         "nested_compound_metadata_controlled_vocab", ERROR)

\* the datasetField records of the Document that was read
FieldRecordsRead == {p \in RecordsRead : p[1] = "datasetField"}

\* the outcome of a rule of the records called by itself at its default level
Called(lint, p) == Lint(lint, p[2], p[1], DefaultLevel(lint))

\* called by themselves on the records the YAML reader builds, the two
\* rules report as the claim says (records that carry every field the rules
\* read)
C20_NestedCompoundFromYaml ==
    (lint_pc = "read" /\ file_type = "yaml" /\ IsTabular(file_content)
        /\ Cardinality(FieldRecordsRead) = 1) =>
        \A p \in FieldRecordsRead :
            /\ HoldsNestedCompound(FalseValue) =>
                  /\ ~Called("nested_compound_metadata", p).raised
                  /\ Len(Called("nested_compound_metadata", p).value) = 1
                  /\ Called("nested_compound_metadata", p).value[1].level = WARNING
            /\ HoldsNestedCompound(TrueValue) =>
                  /\ ~Called("nested_compound_metadata_controlled_vocab", p).raised
                  /\ Len(Called("nested_compound_metadata_controlled_vocab", p).value) = 1
                  /\ Called("nested_compound_metadata_controlled_vocab", p).value[1].level
                        = ERROR

\* called on the records the TSV reader builds, neither rule reports anything
C20_NestedCompoundSilentFromTsv ==
    (lint_pc = "read" /\ file_type = "tsv") =>
        \A p \in FieldRecordsRead :
            \A lint \in {"nested_compound_metadata",
                         "nested_compound_metadata_controlled_vocab"} :
                Called(lint, p).raised \/ Called(lint, p).value = <<>>

\* a TSV file with a child record that allows multiple values on which the
\* rule returns no violation
C20_TsvRecordSilent ==
    /\ lint_pc = "read" /\ file_type = "tsv" /\ HoldsNestedCompound(TrueValue)
    /\ \E p \in FieldRecordsRead :
          Called("nested_compound_metadata_controlled_vocab", p) = Returned(<<>>)

-----------------------------------------------------------------------------
(* Properties of the runs of check and convert and of the functions of
   __main__.py (SpecRun) *)

\* the levels of the violations recorded for any file
LevelsRecorded ==
    UNION {{lint_violations[f].entries[i].level : i \in 1..Len(lint_violations[f].entries)} :
           f \in 1..Len(lint_violations)}

\* C11: return_violations exits with status 0 when no violation was recorded
\* for any file, with status 1 when the most severe violation of all files is
\* an ERROR, and with warn_ec when it is a WARNING, in whatever order the
\* files were processed.
C11_ExitStatus ==
    run_pc = "exited" =>
        exit_code = IF LevelsRecorded = {} THEN 0
                    ELSE IF ERROR \in LevelsRecorded THEN 1
                    ELSE IF WARNING \in LevelsRecorded THEN run_args.warn_ec
                    ELSE 1

\* a file with an ERROR was processed before a file with only WARNINGs, and
\* warnings have their own status
C11_Witness ==
    /\ run_pc = "exited" /\ run_args.warn_ec = 2 /\ exit_code = 1
    /\ Len(lint_violations) = 2
    /\ MinLevel(lint_violations[1].entries) = ERROR
    /\ MinLevel(lint_violations[2].entries) = WARNING

\* warnings alone end the run with warn_ec
C11_WarningsOnly ==
    /\ run_pc = "exited" /\ LevelsRecorded = {WARNING}
    /\ run_args.warn_ec = 2 /\ exit_code = 2

\* the identifiers given to from_cli_args in its three lists
IdentifiersSupplied ==
    {cli_args.error[i] : i \in 1..Len(cli_args.error)} \cup
    {cli_args.warn[i] : i \in 1..Len(cli_args.warn)} \cup
    {cli_args.skip[i] : i \in 1..Len(cli_args.skip)}

\* C13: when an identifier of the override lists is neither a full rule name
\* nor a short code of the catalog, the run aborts with a non-zero exit
\* status before any input file is read or validated, and the violations of
\* no file are collected or printed.
C13_UnknownIdentifierAborts ==
    (lint_pc # "ready" /\ \E id \in IdentifiersSupplied : id \notin DOMAIN LINT_NAMES) =>
        /\ lint_pc = "aborted"
        /\ lint_conf.raised
        /\ lint_conf.exc = "SystemExit" => lint_conf.code # 0
        /\ document = PyNone /\ validation = NoResult

\* sys.exit(1) from the lookup of an unknown identifier, with a file waiting
C13_Witness ==
    /\ lint_pc = "aborted" /\ lint_conf = Exited(1)
    /\ "nested_metadata" \in IdentifiersSupplied
    /\ file_content \in SchemaInputs /\ document = PyNone

\* a run of check or convert ends in the call of from_cli_args whatever
\* the identifiers are: nothing is read, validated, collected or printed
RunEndsInConfiguration ==
    (command \in {"check", "convert"} /\ run_pc # "start") =>
        /\ run_pc = "aborted" /\ exit_code = 1
        /\ run_conf.raised /\ run_conf.exc = "TypeError"
        /\ file_idx = 0 /\ files_read = {} /\ files_validated = {}
        /\ lint_violations = <<>> /\ printed = <<>> /\ ~output_written

\* file number i of the run is a YAML file in which a key occurs twice
DuplicateKeyFile(i) ==
    /\ guess_input_type(run_args.files[i].path).input_type = "yaml"
    /\ run_args.files[i].content.duplicate_key

\* file number j of the run was read, and validated unless a key occurs twice
ReadAndValidated(j) ==
    LET file == run_args.files[j]
    IN guess_input_type(file.path).input_type # FalseValue =>
           /\ file.path \in files_read
           /\ (file.content.duplicate_key /\ guess_input_type(file.path).input_type = "yaml")
              \/ file.path \in files_validated

\* read_yaml has returned for a file in which a key occurs twice
ReadDuplicateKeyFile ==
    command = "read_yaml" /\ run_pc # "start" /\ DuplicateKeyFile(1)

\* C15: when the YAML reader reports a duplicate key for a file, read_yaml
\* returns exactly one violation for that file, of level ERROR, with layout
\* metric 0 and without running any rule on the file, and the check loop goes
\* on to read and validate every remaining file of the run.
C15_DuplicateKeyThenRemainingFiles ==
    /\ ReadDuplicateKeyFile =>
          /\ ~returned.raised
          /\ Len(returned.value.violations) = 1
          /\ returned.value.violations[1].level = ERROR
          /\ returned.value.longest_row = 0
          /\ files_validated = {}
    /\ (command = "check" /\ run_pc \in {"exited", "aborted"}) =>
          \A i \in 1..Len(run_args.files) :
              DuplicateKeyFile(i) =>
                  \A j \in (i + 1)..Len(run_args.files) : ReadAndValidated(j)

\* the part of C15 about read_yaml: for a file with a duplicate key it
\* returns no data, the layout metric 0 and the one ERROR of the reader, whose
\* rule is top_level_keywords_valid, and no rule has run on the file
C15_DuplicateKeyIsOneError ==
    ReadDuplicateKeyFile =>
        /\ run_pc = "returned" /\ ~returned.raised
        /\ returned.value.data = PyNone /\ returned.value.longest_row = 0
        /\ Len(returned.value.violations) = 1
        /\ returned.value.violations[1].level = ERROR
        /\ returned.value.violations[1].rule = "top_level_keywords_valid"
        /\ files_validated = {}

\* read_yaml returns only for a file with a duplicate key: for every other
\* file its call of validate_yaml raises TypeError, which it does not catch
C15_OnlyDuplicateKeyFileReturns ==
    (command = "read_yaml" /\ run_pc # "start") =>
        IF DuplicateKeyFile(1) THEN run_pc = "returned"
        ELSE /\ run_pc = "aborted" /\ exit_code = 1 /\ files_validated = {}
             /\ returned = Raised("TypeError",
                    "validate_yaml() takes 2 positional arguments but 3 were given")

\* a check run of a file with a duplicate key and a second file ends before
\* either is read
C15_NoFileRead ==
    /\ command = "check" /\ run_pc = "aborted" /\ Len(run_args.files) = 2
    /\ DuplicateKeyFile(1) /\ ~DuplicateKeyFile(2)
    /\ files_read = {}

\* the violations recorded for the path that is looked up
RecordedForInput ==
    IF DictHas(lint_violations, run_args.files[1].path)
    THEN DictGet(lint_violations, run_args.files[1].path)
    ELSE <<>>

C17_ConvertNeverWrites ==
    command = "convert" => (~output_written /\ lint_violations = <<>>)

\* file_path in lint_violations is False for every path and every collection
C17_MembershipTestNeverHolds ==
    (command = "__contains__" /\ run_pc = "returned") => ~returned

\* the spellings of the extensions among the files of the runs
TsvSpellings == {<<".", "t", "s", "v">>, <<".", "T", "S", "V">>}
YamlSpellings == {<<".", "y", "m", "l">>, <<".", "y", "a", "m", "l">>,
                  <<".", "Y", "a", "m", "l">>}
CsvSpellings == {<<".", "c", "s", "v">>}

\* what guess_input_type returned
GuessedAs(input_type, levels) ==
    /\ returned.input_type = input_type
    /\ [i \in 1..Len(returned.violations) |-> returned.violations[i].level] = levels

\* C19: guess_input_type decides on the lower-cased extension alone: .tsv
\* gives tsv and .yml and .yaml give yaml without violation, .csv gives csv
\* with exactly one WARNING, and every other extension gives False with
\* exactly one ERROR; such a file is neither read nor validated and the check
\* run exits with status 1.
C19_InputTypeByExtension ==
    /\ (command = "guess_input_type" /\ run_pc = "returned") =>
          LET ext == run_args.files[1].path.ext
          IN IF ext \in TsvSpellings THEN GuessedAs("tsv", <<>>)
             ELSE IF ext \in YamlSpellings THEN GuessedAs("yaml", <<>>)
             ELSE IF ext \in CsvSpellings THEN GuessedAs("csv", <<WARNING>>)
             ELSE GuessedAs(FalseValue, <<ERROR>>)
    /\ (command = "check" /\ run_pc \in {"exited", "aborted"}) =>
          \A i \in 1..Len(run_args.files) :
              LET path == run_args.files[i].path
              IN path.ext \notin TsvSpellings \cup YamlSpellings \cup CsvSpellings =>
                    /\ path \notin files_read /\ path \notin files_validated
                    /\ exit_code = 1

\* guess_input_type has returned False and one ERROR for a path with an
\* unsupported extension
C19_Witness ==
    /\ command = "guess_input_type" /\ run_pc = "returned"
    /\ run_args.files[1].path.ext = <<".", "x", "l", "s", "x">>
    /\ returned.input_type = FalseValue
    /\ Len(returned.violations) = 1 /\ returned.violations[1].level = ERROR

\* a path in upper case is taken as a TSV file
C19_UpperCase ==
    /\ command = "guess_input_type" /\ run_pc = "returned"
    /\ run_args.files[1].path.ext = <<".", "T", "S", "V">>
    /\ returned.input_type = "tsv" /\ returned.violations = <<>>

\* a check run over a file with an unsupported extension has ended with
\* status 1, no file read
C19_CheckRunFails ==
    /\ command = "check" /\ run_pc = "aborted" /\ exit_code = 1
    /\ Len(run_args.files) = 1
    /\ run_args.files[1].path.ext = <<".", "x", "l", "s", "x">>
    /\ files_read = {}

-----------------------------------------------------------------------------
(* Properties of the prefix clusterer and of the typo heuristic, continued *)

\* the members of a group that start with a prefix, in their order
MembersStartingWith(group, p) ==
    LET keep == {i \in 1..Len(group) : p \in Prefixes(group[i])}
        F[n \in 0..Len(group)] ==
            IF n = 0 THEN <<>>
            ELSE IF n \in keep THEN Append(F[n - 1], group[n]) ELSE F[n - 1]
    IN F[Len(group)]

\* the keywords that are members of some identified group
Grouped == UNION {Range(identified_groups[g].entries) : g \in 1..Len(identified_groups)}

\* the candidate the for loop is about to examine strictly extends the
\* working prefix
ExtendsWorkingPrefix ==
    /\ prefix_pc = "for" /\ kw_idx <= Len(keywords)
    /\ current_prefix # NonePrefix
    /\ LET lcp == LongestCommonPrefix(selected_keyword, keywords[kw_idx])
       IN current_prefix.prefix \in Prefixes(lcp) /\ lcp # current_prefix.prefix

\* C21: while split_by_common_prefixes builds a group, when a candidate's
\* longest common prefix with the reference strictly extends the working
\* prefix, the working prefix becomes that longer prefix and the group keeps
\* only the members that start with it; every member dropped this way stays
\* in the pool and ends up in a later group ('FooBarLong', 'FooBarShort',
\* 'FooBarLonger' gives group 'FooBarLong' with two members and the
\* singleton 'FooBarShort').
C21_LongestBinding ==
    [][/\ ExtendsWorkingPrefix =>
            LET kw == keywords[kw_idx]
                lcp == LongestCommonPrefix(selected_keyword, kw)
            IN /\ current_prefix' = SomePrefix(lcp)
               /\ current_group' = MembersStartingWith(Append(current_group, kw), lcp)
               /\ keywords' = keywords
       /\ (prefix_pc = "for" /\ prefix_pc' = "while") =>
            /\ Range(keywords') = Range(keywords) \ Range(current_group)
            /\ Range(current_group) \subseteq Grouped'
       /\ prefix_pc' = "done" =>
            /\ Range(call_arg) = Grouped'
            /\ (call_arg = KwsLongestBinding /\ min_prefix_length = 3) =>
                   identified_groups' =
                       << [key |-> W_FooBarLong, entries |-> <<W_FooBarLong, W_FooBarLonger>>],
                          [key |-> W_FooBarShort, entries |-> <<W_FooBarShort>>] >>
     ]_vars

\* 'FooBarLonger' has lengthened the prefix 'FooBar' to 'FooBarLong', and
\* 'FooBarShort' has left the group and is in the pool
C21_Witness ==
    /\ prefix_pc = "for" /\ call_arg = KwsLongestBinding /\ kw_idx = 3
    /\ current_prefix = SomePrefix(W_FooBarLong)
    /\ current_group = <<W_FooBarLong, W_FooBarLonger>>
    /\ W_FooBarShort \in Range(keywords)

\* the dropped member ended up in a later group
C21_DroppedMemberGroupedLater ==
    /\ prefix_pc = "done" /\ call_arg = KwsLongestBinding /\ min_prefix_length = 3
    /\ Len(identified_groups) = 2
    /\ identified_groups[2].entries = <<W_FooBarShort>>

\* C22: every typo candidate reported by estimate_typos pairs a singleton
\* group with a candidate group that has more than one member; a group with
\* several members is never the first component of a pair, and the second
\* component is never itself a singleton.
C22_CandidateGroupIsLarger ==
    (SplitReturned /\ entry = "estimate_typos") =>
        \A c \in 1..Len(typo_candidates) :
            /\ Len(typo_candidates[c][1].entries) = 1
            /\ Len(typo_candidates[c][2].entries) > 1

\* C22, amended: every typo candidate reported by estimate_typos pairs a
\* singleton group with another group of the result whose key is not longer
\* than the singleton's; a group with several members is never the first
\* component of a pair, and the second component is a group of any size, a
\* singleton included.
C22_SingletonWithAnotherGroup ==
    (SplitReturned /\ entry = "estimate_typos") =>
        \A c \in 1..Len(typo_candidates) :
            /\ typo_candidates[c][1].key \in GroupKeys
            /\ typo_candidates[c][1].entries = GroupOf(typo_candidates[c][1].key)
            /\ Len(typo_candidates[c][1].entries) = 1
            /\ typo_candidates[c][2].key \in GroupKeys \ {typo_candidates[c][1].key}
            /\ typo_candidates[c][2].entries = GroupOf(typo_candidates[c][2].key)
            /\ Len(typo_candidates[c][2].key) <= Len(typo_candidates[c][1].key)

\* two singleton groups reported as each other's typo candidate
C22_Witness ==
    /\ SplitReturned /\ entry = "estimate_typos"
    /\ call_arg = <<W_abcd, W_bacd>> /\ min_prefix_length = 3
    /\ dl_distance_threshold = 1
    /\ ReportedPairs = {<<W_abcd, W_bacd>>, <<W_bacd, W_abcd>>}

-----------------------------------------------------------------------------
(* Properties of the configuration, the readers and validation, continued *)

\* C23: every rule that validation runs is first resolved through the
\* override configuration: a rule configured as skip contributes no violation
\* to the result of validate_yaml, a rule forced to ERROR or WARNING
\* contributes its violations at that forced level, and an unconfigured rule
\* runs unchanged.
C23_OverridesApplied ==
    lint_pc = "done" =>
        /\ ~validation.raised
        /\ \A lint \in RuleNames : \A p \in ArgumentsOf(lint) :
              LET resolved == get(lint_conf.value, lint, p[1], p[2])
              IN ~resolved.raised =>
                    Range(resolved.value) \subseteq Range(validation.value.violations)
        /\ \A i \in 1..Len(validation.value.violations) :
              LET v == validation.value.violations[i]
              IN DictHas(lint_conf.value, v.rule) =>
                    /\ DictGet(lint_conf.value, v.rule).kind = "level"
                    /\ v.level = DictGet(lint_conf.value, v.rule).level

\* a rule of baseline ERROR with a violation on the file is forced to
\* WARNING in the configuration, and the call of validate_yaml with this
\* configuration raises
C23_ForcedRuleNeverRuns ==
    /\ lint_pc = "done"
    /\ lint_conf.value = <<[key |-> "keys_valid", entries |-> warning_override]>>
    /\ \E p \in ArgumentsOf("keys_valid") :
          LET resolved == get(lint_conf.value, "keys_valid", p[1], p[2])
          IN ~resolved.raised /\ resolved.value # <<>>
                /\ resolved.value[1].level = WARNING
    /\ validation.raised

\* the function of validation.py has no configuration among its arguments:
\* its outcome is the same under every configuration
C23_ConfigurationNotConsulted ==
    lint_pc = "validated" => validation = call_validate_yaml(<<document, 0>>)

\* the violations a stage of rules reports on an argument, rule after rule,
\* under the configuration
StageViolations(lints, arg, kw) ==
    LET F[n \in 0..Len(lints)] ==
            IF n = 0 THEN <<>>
            ELSE LET outcome == get(lint_conf.value, lints[n], arg, kw)
                 IN F[n - 1] \o (IF outcome.raised THEN <<>> ELSE outcome.value)
    IN F[Len(lints)]

\* the violations of section s of the Document: those of the block-content
\* rules, then those of the record-level rules, record after record
SectionViolations(s) ==
    LET kw == document.sections[s].key
        chunk == document.sections[s].entries
        records == IF chunk.type = "MDBlockList" THEN chunk.items ELSE <<>>
        F[n \in 0..Len(records)] ==
            IF n = 0 THEN StageViolations(BlockStage, chunk, kw)
            ELSE F[n - 1] \o StageViolations(RecordStage, records[n], kw)
    IN F[Len(records)]

\* the top-level violations, then those of the sections taken in an order
DiscoveryOrder(order) ==
    LET F[n \in 0..Len(order)] ==
            IF n = 0 THEN StageViolations(TopLevelStage, DictKeys(document.sections), "")
            ELSE F[n - 1] \o SectionViolations(order[n])
    IN F[Len(order)]

\* the sections in the order metadataBlock, datasetField,
\* controlledVocabulary
KeywordOrder ==
    LET sections == document.sections
        F[k \in 0..Len(PERMISSIBLE_KEYWORDS)] ==
            IF k = 0 THEN <<>>
            ELSE IF \E s \in 1..Len(sections) : sections[s].key = PERMISSIBLE_KEYWORDS[k]
            THEN Append(F[k - 1], CHOOSE s \in 1..Len(sections) :
                                     sections[s].key = PERMISSIBLE_KEYWORDS[k])
            ELSE F[k - 1]
    IN F[Len(PERMISSIBLE_KEYWORDS)]

\* C24: validate_yaml returns violations in discovery order: all top-level
\* keyword violations first, then the sections in the fixed keyword order
\* metadataBlock, datasetField, controlledVocabulary regardless of the order
\* in which the sections appear in the document, and within a section the
\* block-content violations before the record-level violations, records in
\* source order.
C24_SectionsInKeywordOrder ==
    ValidationCalled =>
        /\ ~validation.raised
        /\ validation.value.violations = DiscoveryOrder(KeywordOrder)

\* a document that begins with its datasetField section and on which rules
\* have violations to report: validate_yaml returns no violation list
C24_NoViolationListReturned ==
    /\ lint_pc = "done" /\ file_type = "yaml" /\ lint_conf.value = <<>>
    /\ [s \in 1..Len(document.sections) |-> document.sections[s].key] =
          <<"datasetField", "metadataBlock">>
    /\ DiscoveryOrder(KeywordOrder) # <<>>
    /\ validation.raised

-----------------------------------------------------------------------------
(* Properties of the two nested-compound rules (SpecRules) *)

NestedCompoundRules ==
    {"nested_compound_metadata", "nested_compound_metadata_controlled_vocab"}

\* the value of a field of the record the rule was called on, Absent when the
\* record lacks the field
FieldValue(key) ==
    IF HasKey(yaml_chunk[1], key) THEN yaml_chunk[1].fields[key].value ELSE Absent

\* the record is a child that allows multiple values: its parent is present
\* and not None, its allowmultiples is the boolean true
IsNestedCompound ==
    /\ FieldValue("parent") \notin {Absent, NoneValue}
    /\ FieldValue("allowmultiples") = TrueValue

\* the flag of allowControlledVocabulary on which the called rule fires
FiresOn ==
    IF rule = "nested_compound_metadata" THEN FalseValue ELSE TrueValue

\* the one violation the called rule returns when it fires
OneNestedCompoundViolation ==
    /\ ~rule_result.raised
    /\ Len(rule_result.value) = 1
    /\ rule_result.value[1].rule = rule
    /\ rule_result.value[1].level = level

\* C25: for a datasetField record whose parent is non-null and whose
\* allowmultiples is true, nested_compound_metadata returns one violation (at
\* the level it was called with, WARNING by default) when
\* allowControlledVocabulary is false and none when it is true, and
\* nested_compound_metadata_controlled_vocab returns one violation (ERROR
\* by default) when it is true and none when it is false, so exactly one of
\* the two fires; for a record with null parent or allowmultiples false, and
\* for a record of any other section kind, neither rule returns a violation.
C25_ExactlyOneFires ==
    (rules_pc = "done" /\ rule \in NestedCompoundRules) =>
        /\ (tsv_keyword = "datasetField" /\ IsNestedCompound
              /\ FieldValue("allowControlledVocabulary") = FiresOn) =>
                 OneNestedCompoundViolation
        /\ (tsv_keyword = "datasetField" /\ IsNestedCompound
              /\ FieldValue("allowControlledVocabulary") \in {TrueValue, FalseValue} \ {FiresOn}) =>
                 rule_result = Returned(<<>>)
        /\ (tsv_keyword = "datasetField"
              /\ (FieldValue("parent") = NoneValue
                    \/ (FieldValue("parent") # Absent
                          /\ FieldValue("allowmultiples") = FalseValue))) =>
                 rule_result = Returned(<<>>)
        /\ tsv_keyword # "datasetField" => rule_result = Returned(<<>>)
        /\ DefaultLevel("nested_compound_metadata") = WARNING
        /\ DefaultLevel("nested_compound_metadata_controlled_vocab") = ERROR

\* on the records that carry a name the rules behave as stated
C25_HoldsForNamedRecords ==
    (rules_pc = "done" /\ rule \in NestedCompoundRules /\ HasKey(yaml_chunk[1], "name")) =>
        /\ (tsv_keyword = "datasetField" /\ IsNestedCompound
              /\ FieldValue("allowControlledVocabulary") = FiresOn) =>
                 OneNestedCompoundViolation
        /\ (tsv_keyword = "datasetField" /\ IsNestedCompound
              /\ FieldValue("allowControlledVocabulary") \in {TrueValue, FalseValue} \ {FiresOn}) =>
                 rule_result = Returned(<<>>)
        /\ (tsv_keyword = "datasetField"
              /\ (FieldValue("parent") = NoneValue
                    \/ (FieldValue("parent") # Absent
                          /\ FieldValue("allowmultiples") = FalseValue))) =>
                 rule_result = Returned(<<>>)
        /\ tsv_keyword # "datasetField" => rule_result = Returned(<<>>)

\* a child that allows multiple values and carries no name: the rule that
\* should fire raises KeyError('name') while it builds its message
C25_RaisesWithoutName ==
    /\ rules_pc = "done" /\ rule \in NestedCompoundRules
    /\ tsv_keyword = "datasetField" /\ IsNestedCompound
    /\ FieldValue("allowControlledVocabulary") = FiresOn
    /\ ~HasKey(yaml_chunk[1], "name")
    /\ rule_result = Raised("KeyError", "name")

-----------------------------------------------------------------------------
(* Properties of no_substructures on the records of a Document (SpecLint) *)

\* the records of the Document: the items of the sections that are lists
DocumentRecords ==
    UNION { {[kw |-> document.sections[s].key, item |-> document.sections[s].entries.items[r]] :
                r \in 1..Len(document.sections[s].entries.items)} :
            s \in {t \in 1..Len(document.sections) :
                      document.sections[t].entries.type = "MDBlockList"} }

\* the fields of a record whose value is a mapping or a list
NestedFields(item) ==
    {key \in DOMAIN item.fields :
        NodeType(item.fields[key]) \in {"MDBlockDict", "MDBlockList", "dict", "list"}}

\* C26: for every record of a Document built by a reader, no_substructures
\* returns one violation for each field whose value is a nested mapping or
\* list and none for the fields with scalar values, so that a record for which
\* it returns no violation contains no nested mapping or list.
C26_NestedValuesReported ==
    lint_pc \in {"read", "done", "validated"} =>
        \A rec \in DocumentRecords :
            LET found == no_substructures(rec.item, rec.kw, ERROR)
            IN /\ ~found.raised
               /\ Len(found.value) = Cardinality(NestedFields(rec.item))
               /\ \A i \in 1..Len(found.value) : found.value[i].rule = "no_substructures"
               /\ found.value = <<>> => NestedFields(rec.item) = {}

\* no_substructures returns no violation for any record the readers build
C26_NeverReports ==
    lint_pc \in {"read", "done", "validated"} =>
        \A rec \in DocumentRecords :
            no_substructures(rec.item, rec.kw, ERROR) = Returned(<<>>)

\* a record of a YAML file with a mapping or a list as the value of a field,
\* for which the rule returns no violation
C26_NestedValuePasses ==
    /\ lint_pc = "read" /\ file_type = "yaml"
    /\ \E rec \in DocumentRecords :
          /\ NestedFields(rec.item) # {}
          /\ no_substructures(rec.item, rec.kw, ERROR) = Returned(<<>>)

-----------------------------------------------------------------------------
(* Properties of the report of return_violations (SpecRun) *)

\* the most severe level among the violations recorded for a file
OwnLevel(file_path) == MinLevel(DictGet(lint_violations, file_path))

\* C27: when return_violations prints the violations grouped by file, the
\* level noted for each file is that file's own most severe level (ERROR if
\* the file has at least one ERROR violation, otherwise WARNING), independent
\* of the levels of the files printed before it.
C27_OwnLevelNoted ==
    run_pc = "exited" =>
        /\ [n \in 1..Len(printed) |-> printed[n].file_path] = DictKeys(lint_violations)
        /\ \A n \in 1..Len(printed) :
              printed[n].highest = OwnLevel(printed[n].file_path)

\* the level noted for a file is the most severe level of the files printed
\* so far, the file included; the first file is printed with its own level
C27_RunningLevelNoted ==
    run_pc = "exited" =>
        /\ [n \in 1..Len(printed) |-> printed[n].file_path] = DictKeys(lint_violations)
        /\ \A n \in 1..Len(printed) :
              /\ printed[n].total = Len(DictGet(lint_violations, printed[n].file_path))
              /\ \E m \in 1..n : printed[n].highest = OwnLevel(printed[m].file_path)
              /\ \A m \in 1..n : printed[n].highest <= OwnLevel(printed[m].file_path)

\* a file with warnings only, printed after a file with an error, is noted
\* with ERROR
C27_WarningFileNotedAsError ==
    /\ run_pc = "exited" /\ Len(printed) = 2
    /\ OwnLevel(printed[1].file_path) = ERROR
    /\ OwnLevel(printed[2].file_path) = WARNING
    /\ printed[2].highest = ERROR

\* the same two files in the other order are each noted with their own level
C27_ErrorFileAfterWarningFile ==
    /\ run_pc = "exited" /\ Len(printed) = 2
    /\ OwnLevel(printed[1].file_path) = WARNING /\ printed[1].highest = WARNING
    /\ OwnLevel(printed[2].file_path) = ERROR /\ printed[2].highest = ERROR

\* no keyword occurs twice in the list
DistinctKeywords(kws) == \A i, j \in 1..Len(kws) : kws[i] = kws[j] => i = j

\* the groups that hold a keyword
GroupsOf(kw) ==
    {g \in 1..Len(identified_groups) : kw \in Range(identified_groups[g].entries)}

\* the groups partition the list the function was called on, and each group
\* fits its key
GroupsPartition(kws) ==
    /\ \A i \in 1..Len(kws) : Cardinality(GroupsOf(kws[i])) = 1
    /\ \A g \in 1..Len(identified_groups) :
          LET key == identified_groups[g].key
              members == identified_groups[g].entries
          IN /\ members # <<>>
             /\ Range(members) \subseteq Range(kws)
             /\ DistinctKeywords(members)
             /\ \A m \in 1..Len(members) : key \in Prefixes(members[m])
             /\ Len(members) > 1 => Len(key) >= min_prefix_length
    /\ \A g, h \in 1..Len(identified_groups) :
          identified_groups[g].key = identified_groups[h].key => g = h

\* C28: for every input list of distinct keywords and every
\* min_prefix_length >= 1, the groups returned by split_by_common_prefixes
\* partition the input: every keyword is a member of exactly one group, no
\* group is empty, no group key is assigned twice (a group never overwrites
\* an earlier one), every member of a group starts with the group's key, and
\* the key of a group with more than one member has at least
\* min_prefix_length characters.
C28_GroupsPartitionInput ==
    [][(DistinctKeywords(call_arg) /\ min_prefix_length >= 1) =>
          /\ (prefix_pc = "for" /\ prefix_pc' = "while") =>
                /\ Len(identified_groups') = Len(identified_groups) + 1
                /\ identified_groups'[Len(identified_groups')].key
                       \notin Range(DictKeys(identified_groups))
                /\ SubSeq(identified_groups', 1, Len(identified_groups)) = identified_groups
          /\ prefix_pc' = "done" => GroupsPartition(call_arg)'
      ]_vars

\* three distinct keywords returned as a group of two under a shared prefix
\* and a singleton
C28_Witness ==
    /\ prefix_pc = "done" /\ DistinctKeywords(call_arg) /\ Len(call_arg) = 3
    /\ Len(identified_groups) = 2
    /\ \E g \in 1..2 :
          /\ Len(identified_groups[g].entries) = 2
          /\ identified_groups[g].key \notin Range(call_arg)
          /\ Len(identified_groups[g].key) >= min_prefix_length
    /\ GroupsPartition(call_arg)

\* with a keyword that occurs twice a group can overwrite an earlier one
C28_DuplicateOverwrites ==
    /\ prefix_pc = "done" /\ ~DistinctKeywords(call_arg)
    /\ ~GroupsPartition(call_arg)

\* the function is inside its while loop
InGroupingLoop == prefix_pc \in {"while", "for"}

\* C29: the grouping loop of split_by_common_prefixes terminates for every
\* finite keyword list after at most n outer iterations, n being the number
\* of input keywords: the pool starts as the n keywords of the input, each
\* iteration removes the reference keyword from it (one keyword less at the
\* head of the iteration), no step adds a keyword to it, an iteration begins
\* only while the pool is not empty, and the loop reaches its exit, the test
\* of the while statement on an empty pool.
C29_LoopTerminates ==
    /\ [][/\ prefix_pc' = "while" /\ prefix_pc # "for" => Len(keywords') = Len(call_arg')
          /\ (prefix_pc = "while" /\ prefix_pc' = "for") =>
                /\ keywords # <<>>
                /\ Len(keywords') = Len(keywords) - 1
          /\ (prefix_pc = "for" /\ prefix_pc' = "for") => keywords' = keywords
          /\ (prefix_pc = "for" /\ prefix_pc' = "while") =>
                /\ Range(keywords') \subseteq Range(keywords)
                /\ Len(keywords') <= Len(keywords)
                /\ Len(identified_groups') <= Len(call_arg) - Len(keywords')
          /\ (prefix_pc = "while" /\ prefix_pc' = "done") => keywords = <<>>
       ]_vars
    /\ [](InGroupingLoop => <>(prefix_pc = "while" /\ keywords = <<>>))

\* the loop has run once for each of three keywords, the most it can
C29_Witness ==
    /\ prefix_pc = "done" /\ Len(call_arg) = 3 /\ keywords = <<>>
    /\ Len(identified_groups) = 3

\* a call whose loop ran fewer times than there are keywords
C29_FewerIterations ==
    /\ prefix_pc = "done" /\ Len(call_arg) = 3 /\ keywords = <<>>
    /\ Len(identified_groups) = 1 /\ Len(identified_groups[1].entries) = 3

-----------------------------------------------------------------------------
(* Properties of the positions read_tsv gives (SpecLint) *)

\* The TSV file of a schema holds, section after section, the header line of
\* the section and one line per record.  The 1-based line of record r of
\* section s of the file.
FileLine(s, r) ==
    LET F[t \in 0..(s - 1)] ==
            IF t = 0 THEN 0 ELSE F[t - 1] + 1 + Len(file_content[t].entries.records)
    IN F[s - 1] + 1 + r

\* the section of the file a section of the Document was read from
FileSection(key) == CHOOSE s \in 1..Len(file_content) : file_content[s].key = key

\* C30: on the TSV path, for a file whose first line is the first marker
\* line, that has no blank line and that splits into 2 or 3 sections, every
\* record and every scalar node of the Document carries as line the 1-based
\* line number of its row in the file (the running data-row count plus the
\* number of section header lines up to and including its own section) and
\* carries an absent (None) column.
C30_TsvLineNumbers ==
    (lint_pc \in {"read", "done", "validated"} /\ file_type = "tsv") =>
        \A d \in 1..Len(document.sections) :
            LET s == FileSection(document.sections[d].key)
                items == document.sections[d].entries.items
            IN /\ Len(items) = Len(file_content[s].entries.records)
               /\ \A r \in 1..Len(items) :
                     /\ items[r].line = FileLine(s, r)
                     /\ items[r].column = None
                     /\ \A k \in DOMAIN items[r].fields :
                           /\ items[r].fields[k].line = FileLine(s, r)
                           /\ items[r].fields[k].column = None

\* a file of three sections, the third with two records: the record of the
\* second section is on line 4, those of the third on lines 6 and 7
C30_Witness ==
    /\ lint_pc = "read" /\ file_type = "tsv"
    /\ Len(file_content) = 3 /\ Len(document.sections) = 3
    /\ Len(document.sections[1].entries.items) = 1
    /\ Len(document.sections[2].entries.items) = 1
    /\ Len(document.sections[3].entries.items) = 2
    /\ document.sections[2].entries.items[1].line = 4
    /\ document.sections[3].entries.items[1].line = 6
    /\ document.sections[3].entries.items[2].line = 7
    /\ document.sections[3].entries.items[2].fields["name"].line = 7
    /\ document.sections[3].entries.items[2].fields["name"].column = None

\* a file whose first section has no record: the first record of the second
\* section is on line 3
C30_EmptySection ==
    /\ lint_pc = "read" /\ file_type = "tsv"
    /\ Len(file_content) >= 2 /\ file_content[1].entries.records = <<>>
    /\ Len(document.sections) >= 1
    /\ document.sections[1].key = file_content[2].key
    /\ document.sections[1].entries.items[1].line = 3

=============================================================================
